---- MODULE Spec2Model ----
(***************************************************************************)
(* WiFiSet (ESP32 library): the provisioning session of WiFiSetESP32, its  *)
(* BLE transport service, the WiFi manager, the credential store and the   *)
(* inbound frame parser.                                                   *)
(*                                                                         *)
(* Two execution contexts are modelled.  The cooperative thread runs       *)
(* begin(), loop() and the public API; loop() is split into the steps      *)
(* between which the transport context can run.  The transport context     *)
(* delivers onConnect, onDisconnect and onWrite one at a time; onWrite     *)
(* blocks inside WiFiManager::connect, so it is split at that wait.        *)
(***************************************************************************)
EXTENDS Integers, Sequences, FiniteSets

(***************************************************************************)
(* Bounds of the model.                                                    *)
(***************************************************************************)
\* Time is counted in steps of ClockStepMs; at most MaxClock steps pass between two
\* status updates.
MaxClock == 2
\* WiFi.scanNetworks() fails, finds nothing, or finds this many networks.
MaxNetworks == 2
\* The count of status notifications of one provisioning run saturates here.
NotifyCap == 3
\* The count of connect notifications waiting for one tick saturates here.
MaxArrivals == 2
\* Where the transmission of the list is followed to its end, WiFi.scanNetworks()
\* finds up to this many networks: more than scanNetworks() keeps.
MaxFound == 51
\* The parser is given SSIDs and passwords up to these lengths: one byte more than
\* it accepts.
MaxSsidBytes == 33
MaxPasswordBytes == 64
\* The longest payload declared to validateMessage: its length takes two bytes.
MaxProbeBytes == 257
\* The longest SSID or error text given to MessageBuilder: its length does not fit
\* in one byte.
MaxTextBytes == 257
\* One MessageBuilder builds at most this many frames: its counter wraps.
MaxBuilds == 258
\* The frames two execution contexts build with one MessageBuilder at a time.
MaxSharedBuilds == 4

(***************************************************************************)
(* Program constants.                                                      *)
(***************************************************************************)
StatusIntervalMs == 10000
MaxSsidLen == 32
MaxPasswordLen == 63
MaxScanResults == 50
DisconnectDelayMs == 500
ConnectTimeoutMs == 10000

ClockStepMs == StatusIntervalMs

(***************************************************************************)
(* Enumerations (MessageBuilder.h, WiFiManager.h, WiFiSetESP32.h).         *)
(***************************************************************************)
ConnectionStates ==
    {"NOT_CONFIGURED", "CONFIGURED_NOT_CONNECTED", "CONNECTING", "CONNECTED",
     "CONNECTION_FAILED"}

\* static_cast<uint8_t>(ConnectionState)
StateByte(s) ==
    CASE s = "NOT_CONFIGURED" -> 0
      [] s = "CONFIGURED_NOT_CONNECTED" -> 1
      [] s = "CONNECTING" -> 2
      [] s = "CONNECTED" -> 3
      [] s = "CONNECTION_FAILED" -> 4

\* The enumerators of WiFiSetConnectionStatus, by their implicit values.
StatusValue(s) ==
    CASE s = "STATUS_NOT_CONFIGURED" -> 0
      [] s = "STATUS_CONFIGURED_NOT_CONNECTED" -> 1
      [] s = "STATUS_CONNECTING" -> 2
      [] s = "STATUS_CONNECTED" -> 3
      [] s = "STATUS_CONNECTION_FAILED" -> 4

convertConnectionState(state) ==
    CASE state = "NOT_CONFIGURED" -> "STATUS_NOT_CONFIGURED"
      [] state = "CONFIGURED_NOT_CONNECTED" -> "STATUS_CONFIGURED_NOT_CONNECTED"
      [] state = "CONNECTING" -> "STATUS_CONNECTING"
      [] state = "CONNECTED" -> "STATUS_CONNECTED"
      [] state = "CONNECTION_FAILED" -> "STATUS_CONNECTION_FAILED"
      [] OTHER -> "STATUS_NOT_CONFIGURED"

MessageTypeByte(t) ==
    CASE t = "WIFI_LIST_START" -> 1
      [] t = "WIFI_NETWORK_ENTRY" -> 2
      [] t = "WIFI_LIST_END" -> 3
      [] t = "CREDENTIAL_WRITE" -> 16
      [] t = "CREDENTIAL_WRITE_ACK" -> 17
      [] t = "STATUS_REQUEST" -> 32
      [] t = "STATUS_RESPONSE" -> 33
      [] t = "ERROR" -> 255

ErrorCodeByte(e) ==
    CASE e = "INVALID_MESSAGE_FORMAT" -> 1
      [] e = "SCAN_FAILED" -> 2
      [] e = "CREDENTIAL_WRITE_FAILED" -> 3
      [] e = "STORAGE_ERROR" -> 4
      [] e = "CONNECTION_TIMEOUT" -> 5
      [] e = "UNKNOWN_MESSAGE_TYPE" -> 6

(***************************************************************************)
(* ProtocolHandler: the inbound frame parser.  A buffer is a sequence of   *)
(* bytes; data[1] is the C++ data[0].                                      *)
(***************************************************************************)
parseHeader(data) ==
    IF Len(data) < 4
    THEN [isValid |-> FALSE, type |-> MessageTypeByte("ERROR"), sequence |-> 0,
          payloadLength |-> 0, err |-> "Message too short for header"]
    ELSE [isValid |-> TRUE, type |-> data[1], sequence |-> data[2],
          payloadLength |-> data[3] + 256 * data[4], err |-> ""]

\* A variant of validateMessage that accepts the first sequence number only.
validateMessage_InSequence(data) ==
    IF Len(data) < 4
    THEN [ok |-> FALSE, err |-> "Message too short"]
    ELSE IF Len(data) # 4 + parseHeader(data).payloadLength
         THEN [ok |-> FALSE, err |-> "Message length mismatch"]
         ELSE IF parseHeader(data).sequence # 0
              THEN [ok |-> FALSE, err |-> "Message out of sequence"]
              ELSE [ok |-> TRUE, err |-> ""]

\* A variant of validateMessage that accepts bytes after the declared payload.
validateMessage_AtLeast(data) ==
    IF Len(data) < 4
    THEN [ok |-> FALSE, err |-> "Message too short"]
    ELSE IF Len(data) < 4 + parseHeader(data).payloadLength
         THEN [ok |-> FALSE, err |-> "Message length mismatch"]
         ELSE [ok |-> TRUE, err |-> ""]

\* A variant of validateMessage that reads the low byte of the length only.
validateMessage_LowByte(data) ==
    IF Len(data) < 4
    THEN [ok |-> FALSE, err |-> "Message too short"]
    ELSE IF Len(data) # 4 + data[3]
         THEN [ok |-> FALSE, err |-> "Message length mismatch"]
         ELSE [ok |-> TRUE, err |-> ""]

\* The result carries the text validateMessage leaves in lastError.
validateMessage(data) ==
    IF Len(data) < 4
    THEN [ok |-> FALSE, err |-> "Message too short"]
    ELSE IF Len(data) # 4 + parseHeader(data).payloadLength
         THEN [ok |-> FALSE, err |-> "Message length mismatch"]
         ELSE [ok |-> TRUE, err |-> ""]

\* A variant of extractString that accepts a declared length below maxLength only.
extractString_Below(data, available, maxLength) ==
    IF available < 1
    THEN [ok |-> FALSE, str |-> <<>>, bytesRead |-> 0,
          err |-> "Not enough data for string length"]
    ELSE IF data[1] >= maxLength
    THEN [ok |-> FALSE, str |-> <<>>, bytesRead |-> 0,
          err |-> "String length exceeds maximum"]
    ELSE IF available < 1 + data[1]
    THEN [ok |-> FALSE, str |-> <<>>, bytesRead |-> 0,
          err |-> "Not enough data for string content"]
    ELSE [ok |-> TRUE, str |-> SubSeq(data, 2, 1 + data[1]),
          bytesRead |-> 1 + data[1], err |-> ""]

\* A variant of extractString that copies from the length byte on.
extractString_FromLength(data, available, maxLength) ==
    IF available < 1
    THEN [ok |-> FALSE, str |-> <<>>, bytesRead |-> 0,
          err |-> "Not enough data for string length"]
    ELSE IF data[1] > maxLength
    THEN [ok |-> FALSE, str |-> <<>>, bytesRead |-> 0,
          err |-> "String length exceeds maximum"]
    ELSE IF available < 1 + data[1]
    THEN [ok |-> FALSE, str |-> <<>>, bytesRead |-> 0,
          err |-> "Not enough data for string content"]
    ELSE [ok |-> TRUE, str |-> SubSeq(data, 1, data[1]),
          bytesRead |-> 1 + data[1], err |-> ""]

\* data is the buffer from the read position on; available is the caller's budget.
extractString(data, available, maxLength) ==
    IF available < 1
    THEN [ok |-> FALSE, str |-> <<>>, bytesRead |-> 0,
          err |-> "Not enough data for string length"]
    ELSE IF data[1] > maxLength
    THEN [ok |-> FALSE, str |-> <<>>, bytesRead |-> 0,
          err |-> "String length exceeds maximum"]
    ELSE IF available < 1 + data[1]
    THEN [ok |-> FALSE, str |-> <<>>, bytesRead |-> 0,
          err |-> "Not enough data for string content"]
    ELSE [ok |-> TRUE, str |-> SubSeq(data, 2, 1 + data[1]),
          bytesRead |-> 1 + data[1], err |-> ""]

InvalidCredential(e) ==
    [isValid |-> FALSE, ssid |-> <<>>, password |-> <<>>, err |-> e]

\* The result carries the text parseStatusRequest leaves in lastError.
parseStatusRequest(data) ==
    IF ~validateMessage(data).ok
    THEN [ok |-> FALSE, err |-> validateMessage(data).err]
    ELSE IF parseHeader(data).type # MessageTypeByte("STATUS_REQUEST")
    THEN [ok |-> FALSE, err |-> "Not a Status Request message"]
    ELSE IF parseHeader(data).payloadLength # 0
    THEN [ok |-> FALSE, err |-> "Status Request should have no payload"]
    ELSE [ok |-> TRUE, err |-> ""]

\* A variant of parseCredentialWrite that refuses bytes after the password.
parseCredentialWrite_Exact(data) ==
    IF ~validateMessage(data).ok
    THEN InvalidCredential(validateMessage(data).err)
    ELSE IF parseHeader(data).type # MessageTypeByte("CREDENTIAL_WRITE")
    THEN InvalidCredential("Not a Credential Write message")
    ELSE LET payload == SubSeq(data, 5, Len(data))
             budget == parseHeader(data).payloadLength
             s == extractString(payload, budget, MaxSsidLen)
         IN  IF ~s.ok
             THEN InvalidCredential(s.err)
             ELSE IF Len(s.str) = 0
             THEN InvalidCredential("SSID cannot be empty")
             ELSE LET rest == SubSeq(payload, s.bytesRead + 1, Len(payload))
                      p == extractString(rest, budget - s.bytesRead, MaxPasswordLen)
                  IN  IF ~p.ok
                      THEN InvalidCredential(p.err)
                      ELSE IF budget - s.bytesRead # p.bytesRead
                      THEN InvalidCredential("Unexpected data after password")
                      ELSE [isValid |-> TRUE, ssid |-> s.str, password |-> p.str,
                            err |-> ""]

parseCredentialWrite(data) ==
    IF ~validateMessage(data).ok
    THEN InvalidCredential(validateMessage(data).err)
    ELSE IF parseHeader(data).type # MessageTypeByte("CREDENTIAL_WRITE")
    THEN InvalidCredential("Not a Credential Write message")
    ELSE LET payload == SubSeq(data, 5, Len(data))
             budget == parseHeader(data).payloadLength
             s == extractString(payload, budget, MaxSsidLen)
         IN  IF ~s.ok
             THEN InvalidCredential(s.err)
             ELSE IF Len(s.str) = 0
             THEN InvalidCredential("SSID cannot be empty")
             ELSE LET rest == SubSeq(payload, s.bytesRead + 1, Len(payload))
                      p == extractString(rest, budget - s.bytesRead, MaxPasswordLen)
                  IN  IF ~p.ok
                      THEN InvalidCredential(p.err)
                      ELSE [isValid |-> TRUE, ssid |-> s.str, password |-> p.str,
                            err |-> ""]

\* A variant of extractStringReads that copies the string whatever is available.
extractStringReads_Unbudgeted(data, at, available, maxLength) ==
    IF available < 1 THEN {}
    ELSE IF data[at] > maxLength THEN {at}
    ELSE at .. at + data[at]

\* The positions of the buffer extractString reads, its data pointer being at
\* position at: the length byte, then the string if the checks pass.
extractStringReads(data, at, available, maxLength) ==
    IF available < 1 THEN {}
    ELSE IF data[at] > maxLength \/ available < 1 + data[at] THEN {at}
    ELSE at .. at + data[at]

\* The positions of the buffer parseCredentialWrite reads (position 1 is data[0]).
parseCredentialWriteReads(data) ==
    IF Len(data) < 4 THEN {}
    ELSE IF ~validateMessage(data).ok
            \/ parseHeader(data).type # MessageTypeByte("CREDENTIAL_WRITE")
    THEN 1 .. 4
    ELSE LET payloadRemaining == parseHeader(data).payloadLength
             ssidReads == extractStringReads(data, 5, payloadRemaining, MaxSsidLen)
         IN  IF Cardinality(ssidReads) < 2
             THEN (1 .. 4) \cup ssidReads
             ELSE (1 .. 4) \cup ssidReads
                  \cup extractStringReads(data, 5 + Cardinality(ssidReads),
                                          payloadRemaining - Cardinality(ssidReads),
                                          MaxPasswordLen)

\* Where parseCredentialWrite returned: 0 with a credential, 1 at the message or its
\* type, 2 at the SSID field, 3 at the password field.
RejectedAt(data) ==
    IF ~validateMessage(data).ok
       \/ parseHeader(data).type # MessageTypeByte("CREDENTIAL_WRITE") THEN 1
    ELSE LET payload == SubSeq(data, 5, Len(data))
             budget == parseHeader(data).payloadLength
             s == extractString(payload, budget, MaxSsidLen)
         IN  IF ~s.ok \/ Len(s.str) = 0 THEN 2
             ELSE IF ~parseCredentialWrite(data).isValid THEN 3
             ELSE 0

\* The (error text, word) pairs for which String::indexOf(word) >= 0.
WordOccurrences ==
    {<<"Invalid password length", "password">>,
     <<"Failed to write password to NVS", "password">>,
     <<"Connection failed - wrong password or network issue", "password">>}

\* A variant of onWrite that acknowledges a rejected write with the success status.
AckStatusFor_Success(err) == 0

\* The status code CredentialCharacteristicCallbacks::onWrite infers from the text.
AckStatusFor(err) ==
    IF <<err, "password">> \in WordOccurrences THEN 2
    ELSE IF <<err, "storage">> \in WordOccurrences
            \/ <<err, "Storage">> \in WordOccurrences THEN 3
    ELSE 1


(***************************************************************************)
(* WiFiManager: pure parts.                                                *)
(***************************************************************************)
\* The state updateConnectionState() stores, from WiFi.status() and the flag.
updateConnectionState(status, configured) ==
    IF status = "WL_CONNECTED" THEN "CONNECTED"
    ELSE IF configured THEN "CONFIGURED_NOT_CONNECTED"
    ELSE "NOT_CONFIGURED"

\* What the wait loop of connect() can observe before it returns.
ConnectObservations ==
    {"WL_CONNECTED", "WL_CONNECT_FAILED", "WL_NO_SSID_AVAIL", "timeout"}

\* The value connect() returns for an observation of its wait loop.
ConnectResult(obs) ==
    CASE obs = "WL_CONNECTED" -> "SUCCESS"
      [] obs = "timeout" -> "FAILED_TIMEOUT"
      [] obs = "WL_CONNECT_FAILED" -> "FAILED_WRONG_PASSWORD"
      [] obs = "WL_NO_SSID_AVAIL" -> "FAILED_NOT_FOUND"

FailedResults == {"FAILED_TIMEOUT", "FAILED_WRONG_PASSWORD", "FAILED_NOT_FOUND"}

\* WiFi.status() when connect() returns (every failure path calls WiFi.disconnect()).
ConnectEndStatus(result) ==
    IF result = "SUCCESS" THEN "WL_CONNECTED" ELSE "WL_DISCONNECTED"

\* The observations open to a wait loop: none but success once the station is up.
ObservableNow(status) ==
    IF status = "WL_CONNECTED" THEN {"WL_CONNECTED"} ELSE ConnectObservations

\* A variant of scanNetworks that keeps every result.
scanNetworks_Unlimited(n) == IF n <= 0 THEN 0 ELSE n

\* The number of entries scanNetworks() returns for WiFi.scanNetworks() = n.
scanNetworks(n) ==
    IF n <= 0 THEN 0 ELSE IF n < MaxScanResults THEN n ELSE MaxScanResults

ScanCounts == {-1, 0, MaxNetworks}

(***************************************************************************)
(* NVSManager.  The store holds one ssid and one password; an empty ssid   *)
(* means that no credential is stored.                                     *)
(***************************************************************************)
NoCredential == [ssid |-> <<>>, password |-> <<>>]

\* How the Preferences calls of one save can end.
StoreOutcomes ==
    [open : BOOLEAN, ssidWritten : BOOLEAN, passwordWritten : BOOLEAN]

\* saveCredentials: the value returned.
saveCredentials(ssid, password, o) ==
    /\ Len(ssid) # 0
    /\ Len(ssid) <= 32
    /\ Len(password) <= 63
    /\ o.open
    /\ o.ssidWritten
    /\ (Len(password) > 0 => o.passwordWritten)

\* saveCredentials: the store it leaves behind.
storeAfterSave(store, ssid, password, o) ==
    IF Len(ssid) = 0 \/ Len(ssid) > 32 \/ Len(password) > 63 \/ ~o.open
    THEN store
    ELSE [ssid |-> IF o.ssidWritten THEN ssid ELSE store.ssid,
          password |-> IF o.passwordWritten THEN password ELSE store.password]

\* How one loadCredentials can go: whether NVSManager::begin has run, and whether
\* the read-only open of the namespace succeeds.
LoadOutcomes == [initialized : BOOLEAN, open : BOOLEAN]

LoadOk == [initialized |-> TRUE, open |-> TRUE]

loadCredentials(stored, o) ==
    IF ~o.initialized \/ ~o.open \/ Len(stored.ssid) = 0
    THEN [isValid |-> FALSE, ssid |-> <<>>, password |-> <<>>]
    ELSE [isValid |-> TRUE, ssid |-> stored.ssid, password |-> stored.password]

(***************************************************************************)
(* Observable effects of one step: frames delivered to the peer, user      *)
(* callbacks invoked, collaborator calls made and values returned.         *)
(***************************************************************************)
Fx(k, a, v) == [k |-> k, a |-> a, v |-> v]

Frame(type, v) == Fx("frame", type, v)
Callback(name, v) == Fx("cb", name, v)
Call(name, v) == Fx("call", name, v)
Return(name, v) == Fx("ret", name, v)

FramesOf(e, type) == SelectSeq(e, LAMBDA x : x.k = "frame" /\ x.a = type)
CallbacksOf(e, name) == SelectSeq(e, LAMBDA x : x.k = "cb" /\ x.a = name)
CallsOf(e, name) == SelectSeq(e, LAMBDA x : x.k = "call" /\ x.a = name)
StatusCallbacks(e) == CallbacksOf(e, "connectionStatus")

\* A variant of sendData that does not look at clientConnected.
sendData_Unchecked(initialized, connected, frame) ==
    IF ~initialized THEN <<>> ELSE <<frame>>

\* WiFiSetBLEService::sendData: a frame reaches the peer only under these conditions.
sendData(initialized, connected, frame) ==
    IF ~initialized \/ ~connected THEN <<>> ELSE <<frame>>

sendCredentialAck(initialized, connected, statusCode) ==
    IF ~connected THEN <<>>
    ELSE sendData(initialized, connected, Frame("CREDENTIAL_WRITE_ACK", statusCode))

sendStatusResponse(initialized, connected, state) ==
    IF ~connected THEN <<>>
    ELSE sendData(initialized, connected, Frame("STATUS_RESPONSE", StateByte(state)))

sendError(initialized, connected, errorCode) ==
    IF ~connected THEN <<>>
    ELSE sendData(initialized, connected, Frame("ERROR", ErrorCodeByte(errorCode)))


(***************************************************************************)
(* State.                                                                  *)
(***************************************************************************)
\* The external collaborators come first.
VARIABLES
    wifiStatus,               \* WiFi.status(): "WL_CONNECTED" or "WL_DISCONNECTED"
    store,                    \* the "wifiset" namespace of the Preferences store
    elapsed,                  \* millis() - in steps of ClockStepMs
    \* WiFiManager; its connectionState is recomputed by updateConnectionState()
    \* before every read, so it carries nothing from one step to the next
    credentialsConfigured,    \* written by setCredentialsConfigured only, which
                              \* nothing in the library calls
    \* WiFiSetBLEService
    bleInitialized,
    clientConnected,
    advertising,              \* advertising started by the service and not stopped
    \* WiFiSetESP32
    lastConnectionState,
    pendingClientConnect,
    pendingClientDisconnect,
    \* positions of the two execution contexts
    pc,                       \* cooperative thread
    networks,                 \* performWiFiScanAndSend: size of the scanned vector
    idx,                      \* sendWiFiNetworkList: the loop index i
    wpc,                      \* transport context: "idle", "beginWait", "connecting",
                              \* "restarting"
    \* history
    watch,                    \* which of the history variables below are kept
    fx,                       \* the effects of the step taken last, in order
    tickLog,                  \* the effects of the running tick of loop() so far
    lastNotified,             \* the status last given to connectionStatusCallback, or -1
    attempt,                  \* how the latest connect attempt stands
    prov,                     \* the provisioning run that began in NOT_CONFIGURED
    arrived,                  \* connect notifications: n since the connect path ran
                              \* last, batch taken by the connect path of this tick
    \* ProtocolHandler and MessageBuilder taken on their own
    codec                     \* the function applied last, with its input and result

vars ==
    <<wifiStatus, store, elapsed, credentialsConfigured, bleInitialized,
      clientConnected, advertising, lastConnectionState,
      pendingClientConnect, pendingClientDisconnect, pc, networks, idx, wpc,
      watch, fx, tickLog, lastNotified, attempt, prov, arrived, codec>>

\* All but codec.
sessionVars ==
    <<wifiStatus, store, elapsed, credentialsConfigured, bleInitialized,
      clientConnected, advertising, lastConnectionState,
      pendingClientConnect, pendingClientDisconnect, pc, networks, idx, wpc,
      watch, fx, tickLog, lastNotified, attempt, prov, arrived>>

\* Inputs.
Ssid1 == <<104>>
Password1 == <<112>>
StoredAtBoot == {NoCredential, [ssid |-> Ssid1, password |-> Password1]}
ApiSsids == {<<>>, Ssid1}

\* Values written by the peer to the credential characteristic.
InboundFrames ==
    {<<>>,
     <<16, 0, 4, 0, 1, 104, 1, 112>>,
     <<16, 0, 2, 0, 0, 0>>,
     <<16, 0, 1, 0, 33>>,
     <<16, 0, 3, 0, 1, 104, 64>>,
     <<16, 0, 3, 0, 1, 104, 1>>,
     <<32, 0, 0, 0>>}

ClearOutcomes == [initialized : BOOLEAN, open : BOOLEAN, cleared : BOOLEAN]

ElapsedMs == elapsed * ClockStepMs

\* The session applies the codec inside its steps; on its own the codec is idle.
CodecIdle == [fn |-> "none"]

\* The session after construction; w names the history variables to keep.
SessionConstructed(w) ==
    /\ wifiStatus = "WL_DISCONNECTED"
    /\ store \in StoredAtBoot
    /\ elapsed = 0
    /\ credentialsConfigured = FALSE
    /\ bleInitialized = FALSE
    /\ clientConnected = FALSE
    /\ advertising = FALSE
    /\ lastConnectionState = "NOT_CONFIGURED"
    /\ pendingClientConnect = FALSE
    /\ pendingClientDisconnect = FALSE
    /\ pc = "boot"
    /\ networks = 0
    /\ idx = 0
    /\ wpc = "idle"
    /\ watch = w
    /\ fx = <<>>
    /\ tickLog = <<>>
    /\ lastNotified = -1
    /\ attempt = "none"
    /\ prov = [phase |-> "off", n |-> 0]
    /\ arrived = [n |-> 0, batch |-> 0]

\* The state after construction.
InitWatching(w) ==
    /\ SessionConstructed(w)
    /\ codec = CodecIdle

Init == InitWatching({})

(***************************************************************************)
(* History bookkeeping shared by the steps.                                *)
(***************************************************************************)
ProvAfter(phase, e) ==
    [phase |-> phase,
     n |-> IF phase = "off" THEN 0
           ELSE IF prov.n + Len(StatusCallbacks(e)) < NotifyCap
                THEN prov.n + Len(StatusCallbacks(e)) ELSE NotifyCap]

\* A run that reached CONNECTED is followed only while the station stays up.
PhaseHeld(status) ==
    IF prov.phase \in {"connected", "settled"} /\ status # "WL_CONNECTED"
    THEN "off" ELSE prov.phase

\* The connect notifications counted, after a step with the effects e.
ArrivedAfter(e) ==
    IF "arrived" \notin watch THEN arrived
    ELSE IF CallbacksOf(e, "bleClientConnected") # <<>>
         THEN [n |-> 0, batch |-> arrived.n]
    ELSE IF CallsOf(e, "monitorConnection") # <<>>
         THEN [n |-> arrived.n, batch |-> 0]
    ELSE arrived

\* One more connect notification.
ArrivedOneMore ==
    IF "arrived" \notin watch THEN arrived
    ELSE [arrived EXCEPT !.n = IF @ < MaxArrivals THEN @ + 1 ELSE MaxArrivals]

GhostOf(e, phase, att) ==
    /\ fx' = e
    /\ lastNotified' =
          IF "lastNotified" \notin watch \/ StatusCallbacks(e) = <<>> THEN lastNotified
          ELSE StatusCallbacks(e)[Len(StatusCallbacks(e))].v
    /\ prov' = IF "prov" \in watch THEN ProvAfter(phase, e) ELSE prov
    /\ attempt' = IF "attempt" \in watch THEN att ELSE attempt
    /\ watch' = watch
    /\ codec' = codec

Ghost(e, phase, att) ==
    /\ GhostOf(e, phase, att)
    /\ arrived' = ArrivedAfter(e)

\* A connect attempt starts: it is a retry when the latest attempt failed, and a
\* retry from CONNECTION_FAILED when that state is still the recorded one.
AttemptStarted(latest, recorded) ==
    IF latest \notin FailedResults THEN "running"
    ELSE IF recorded = "CONNECTION_FAILED" THEN "retryingFromFailed"
    ELSE "retrying"

\* The positions of the cooperative thread inside a tick of loop().
TickPositions == {"scan", "list", "entries", "status"}

\* A step outside loop() leaves the log of a running tick alone; the log of a
\* finished tick lasts until the next step.
TickLogKept == tickLog' = IF pc \in TickPositions THEN tickLog ELSE <<>>

BoolValue(b) == IF b THEN 1 ELSE 0

\* The log of a tick opens with the entry into loop() and the value
\* pendingClientDisconnect has there.
TickLogSoFar ==
    IF pc \in TickPositions THEN tickLog
    ELSE <<Call("loop", BoolValue(pendingClientDisconnect))>>

\* The effects of the latest tick, kept when watched: so far holds those of its
\* earlier stretches.
TickLogAfter(sofar, e) == IF "tickLog" \in watch THEN sofar \o e ELSE tickLog

(***************************************************************************)
(* WiFiSetESP32::begin                                                     *)
(***************************************************************************)
\* begin(): the state recorded, by the result of the boot connect attempt.
BeginEndState(result) ==
    IF result = "SUCCESS" THEN "CONNECTED" ELSE "CONNECTION_FAILED"

\* A variant of begin() that starts advertising whatever the boot attempt gives.
BeginAdvertises_Always(hasCredential, result) == TRUE

\* begin(): whether advertising is started, by the outcome of the boot attempt.
BeginAdvertises(hasCredential, result) ==
    IF hasCredential THEN result # "SUCCESS" ELSE TRUE

\* begin(): NVSManager::begin, then loadCredentials with the read-only open it
\* makes, then the boot attempt or the start of advertising.  An attempt that
\* times out has blocked begin() for more than ConnectTimeoutMs.
Begin ==
    /\ pc = "boot"
    /\ \E obs \in ConnectObservations, o \in {l \in LoadOutcomes : l.initialized} :
          LET cred == loadCredentials(store, o)
              opened == <<Call("preferences.begin", BoolValue(o.open))>>
              result == ConnectResult(obs)
          IN  /\ bleInitialized' = TRUE
              /\ IF cred.isValid
                 THEN /\ wifiStatus' = ConnectEndStatus(result)
                      /\ lastConnectionState' = BeginEndState(result)
                      /\ advertising' = BeginAdvertises(TRUE, result)
                      /\ elapsed' = IF result = "FAILED_TIMEOUT"
                                       /\ ElapsedMs <= ConnectTimeoutMs
                                    THEN ConnectTimeoutMs \div ClockStepMs + 1
                                    ELSE elapsed
                      /\ Ghost(opened \o <<Call("WiFi.begin", 0)>> \o
                               (IF result = "SUCCESS"
                                THEN <<Callback("wifiConnected", 0)>>
                                ELSE <<Callback("wifiConnectionFailed", 0),
                                       Call("startAdvertising", 0)>>),
                               "off", result)
                 ELSE /\ wifiStatus' = "WL_DISCONNECTED"
                      /\ lastConnectionState' = "NOT_CONFIGURED"
                      /\ advertising' = BeginAdvertises(FALSE, result)
                      /\ elapsed' = elapsed
                      /\ Ghost(opened \o <<Call("startAdvertising", 0)>>,
                               "off", attempt)
    /\ pc' = "idle"
    /\ UNCHANGED <<store, credentialsConfigured, clientConnected,
                   pendingClientConnect, pendingClientDisconnect, networks, idx, wpc,
                   tickLog>>


(***************************************************************************)
(* WiFiSetESP32::loop, one step per stretch between two waits (delay or    *)
(* the blocking scan), with monitorConnection at its end.                  *)
(***************************************************************************)
\* The steps of the cooperative thread leave these alone unless they say otherwise.
LoopKeeps ==
    UNCHANGED <<store, credentialsConfigured, bleInitialized, clientConnected,
                advertising, wpc>>

\* No peer is connected: the mark left in the log of a running tick, once, outside
\* the transmission of the list.
PeerAway == Fx("event", "peerAway", 0)

\* A step of loop() with the effects e; marks go to the log of the tick only.
LoopGhostMarked(e, marks) ==
    /\ Ghost(e, PhaseHeld(wifiStatus), attempt)
    /\ tickLog' = TickLogAfter(TickLogSoFar, e \o marks)

LoopGhost(e) == LoopGhostMarked(e, <<>>)

\* A variant of monitorConnection that acts as soon as the interval has passed.
MonitorActs_AtInterval(currentState, recorded, elapsedMs) ==
    currentState # recorded \/ elapsedMs >= StatusIntervalMs

\* The condition under which monitorConnection does anything at all.
MonitorActs(currentState, recorded, elapsedMs) ==
    currentState # recorded \/ elapsedMs > StatusIntervalMs

\* The user callbacks monitorConnection invokes.
MonitorCallbacks(currentState, recorded) ==
    IF currentState # recorded
    THEN <<Callback("connectionStatus", StatusValue(convertConnectionState(currentState)))>>
         \o (IF currentState = "CONNECTED" THEN <<Callback("wifiConnected", 0)>>
             ELSE IF currentState = "CONNECTION_FAILED"
                  THEN <<Callback("wifiConnectionFailed", 0)>>
                  ELSE <<>>)
    ELSE <<>>

\* monitorConnection: its effects, in order.
MonitorEffects(currentState, recorded, elapsedMs, connected) ==
    <<Call("monitorConnection", 0)>>
    \o (IF MonitorActs(currentState, recorded, elapsedMs)
        THEN (IF connected
              THEN sendStatusResponse(bleInitialized, connected, currentState)
              ELSE <<>>)
             \o MonitorCallbacks(currentState, recorded)
        ELSE <<>>)

\* The deferred disconnect of loop(): its effects.
DisconnectEffects(pending) ==
    IF pending THEN <<Callback("bleClientDisconnected", 0)>> ELSE <<>>

\* A variant of loop() that examines pendingClientDisconnect first.
TailEffects_DisconnectFirst(before, pending, monitor) ==
    DisconnectEffects(pending) \o before \o monitor

\* The effects of the last stretch of a tick, in order: what precedes the deferred
\* disconnect, the deferred disconnect, monitorConnection.
TailEffects(before, pending, monitor) ==
    before \o DisconnectEffects(pending) \o monitor

\* A variant of monitorConnection that reports a change without recording it.
MonitorRecorded_Kept(currentState, recorded, acts) == recorded

\* monitorConnection: lastConnectionState after it.
MonitorRecorded(currentState, recorded, acts) ==
    IF acts /\ currentState # recorded THEN currentState ELSE recorded

\* The end of every tick: the deferred disconnect, then monitorConnection.  before
\* holds the effects of the same stretch that precede it.
LoopTail(before) ==
    LET currentState == updateConnectionState(wifiStatus, credentialsConfigured)
        acts == MonitorActs(currentState, lastConnectionState, ElapsedMs)
        effects == TailEffects(before, pendingClientDisconnect,
                               MonitorEffects(currentState, lastConnectionState,
                                              ElapsedMs, clientConnected))
    IN  /\ pendingClientDisconnect' = FALSE
        /\ lastConnectionState' =
              MonitorRecorded(currentState, lastConnectionState, acts)
        /\ elapsed' = IF acts THEN 0 ELSE elapsed
        /\ Ghost(effects,
                 IF prov.phase \in {"connected", "settled"}
                 THEN (IF wifiStatus = "WL_CONNECTED" THEN "settled" ELSE "off")
                 ELSE prov.phase,
                 attempt)
        /\ tickLog' = TickLogAfter(TickLogSoFar, effects)
        /\ pc' = "idle"

\* A tick with no deferred connect: loop() runs to its end without waiting.
LoopTick ==
    /\ pc = "idle"
    /\ bleInitialized
    /\ ~pendingClientConnect
    /\ LoopTail(<<>>)
    /\ LoopKeeps
    /\ UNCHANGED <<wifiStatus, pendingClientConnect, networks, idx>>

\* A variant of loop() that leaves pendingClientConnect as it found it.
ConnectFlagAfter_Kept(pending) == pending

\* loop(): pendingClientConnect once the deferred connect has been taken up.
ConnectFlagAfter(pending) == FALSE

\* The deferred connect: pendingClientConnect = false; bleClientConnectedCallback()
LoopConnect ==
    /\ pc = "idle"
    /\ bleInitialized
    /\ pendingClientConnect
    /\ pendingClientConnect' = ConnectFlagAfter(pendingClientConnect)
    /\ pc' = "scan"
    /\ LoopGhostMarked(<<Callback("bleClientConnected", 0)>>,
                       IF clientConnected THEN <<>> ELSE <<PeerAway>>)
    /\ LoopKeeps
    /\ UNCHANGED <<wifiStatus, elapsed, lastConnectionState,
                   pendingClientDisconnect, networks, idx>>

\* performWiFiScanAndSend: wifiManager.scanNetworks()
LoopScan ==
    /\ pc = "scan"
    /\ \E n \in ScanCounts :
          /\ networks' = scanNetworks(n)
          /\ LoopGhost(<<Call("scanNetworks", n)>>)
    /\ pc' = "list"
    /\ LoopKeeps
    /\ UNCHANGED <<wifiStatus, elapsed, lastConnectionState,
                   pendingClientConnect, pendingClientDisconnect, idx>>

\* performWiFiScanAndSend: wifiManager.scanNetworks(), where the scan fails or the
\* radio finds few networks, as many as scanNetworks() keeps, or more.
LoopScanWide ==
    /\ pc = "scan"
    /\ \E n \in {-1, 0, 1, 2, MaxScanResults, MaxFound} :
          /\ networks' = scanNetworks(n)
          /\ LoopGhost(<<Call("scanNetworks", n)>>)
    /\ pc' = "list"
    /\ LoopKeeps
    /\ UNCHANGED <<wifiStatus, elapsed, lastConnectionState,
                   pendingClientConnect, pendingClientDisconnect, idx>>

\* if (isClientConnected()) sendWiFiNetworkList(networks), up to its first wait
LoopListStart ==
    /\ pc = "list"
    /\ idx' = 0
    /\ pc' = IF clientConnected THEN "entries" ELSE "status"
    /\ networks' = IF clientConnected THEN networks ELSE 0
    /\ LoopGhost(IF clientConnected
                 THEN sendData(bleInitialized, clientConnected, Frame("WIFI_LIST_START", 0))
                 ELSE <<>>)
    /\ LoopKeeps
    /\ UNCHANGED <<wifiStatus, elapsed, lastConnectionState,
                   pendingClientConnect, pendingClientDisconnect>>

\* sendWiFiNetworkList: the count byte of WIFI_LIST_END.
networkCount(size) == IF size > 255 THEN 255 ELSE size

\* One pass of the for loop of sendWiFiNetworkList, or the WIFI_LIST_END after it.
\* The vector and the index are locals: they are gone when the function returns.
LoopSendEntry ==
    /\ pc = "entries"
    /\ IF idx < networks
       THEN IF ~clientConnected
            THEN /\ pc' = "status"
                 /\ idx' = 0
                 /\ networks' = 0
                 /\ LoopGhost(<<>>)
            ELSE /\ pc' = "entries"
                 /\ idx' = idx + 1
                 /\ networks' = networks
                 /\ LoopGhost(sendData(bleInitialized, clientConnected,
                                       Frame("WIFI_NETWORK_ENTRY", idx)))
       ELSE /\ pc' = "status"
            /\ idx' = 0
            /\ networks' = 0
            /\ LoopGhost(sendData(bleInitialized, clientConnected,
                                  Frame("WIFI_LIST_END", networkCount(networks))))
    /\ LoopKeeps
    /\ UNCHANGED <<wifiStatus, elapsed, lastConnectionState,
                   pendingClientConnect, pendingClientDisconnect>>

\* The rest of a tick that ran the connect path: sendCurrentStatus(), then the tail.
LoopFinish ==
    /\ pc = "status"
    /\ LoopTail(<<Call("sendCurrentStatus", 0)>>
                \o sendStatusResponse(bleInitialized, clientConnected,
                                      updateConnectionState(wifiStatus,
                                                            credentialsConfigured)))
    /\ LoopKeeps
    /\ UNCHANGED <<wifiStatus, pendingClientConnect, networks, idx>>

(***************************************************************************)
(* Transport context: ServerCallbacks and the credential characteristic.   *)
(* WiFiSetESP32::onStatusRequest overrides a callback that the service     *)
(* never invokes, so it has no step.                                       *)
(***************************************************************************)
TransportLeaves ==
    UNCHANGED <<elapsed, credentialsConfigured, bleInitialized, pc, networks, idx>>

TransportKeeps ==
    /\ TickLogKept
    /\ TransportLeaves

\* A variant of onClientConnected that leaves the flag as it is.
onClientConnected_Kept(pending) == pending

\* WiFiSetESP32::onClientConnected: pendingClientConnect after it.
onClientConnected(pending) == TRUE

\* ServerCallbacks::onConnect
OnConnect ==
    /\ bleInitialized
    /\ wpc = "idle"
    /\ advertising
    /\ ~clientConnected
    /\ clientConnected' = TRUE
    /\ pendingClientConnect' = onClientConnected(pendingClientConnect)
    /\ GhostOf(<<>>, PhaseHeld(wifiStatus), attempt)
    /\ arrived' = ArrivedOneMore
    /\ TransportKeeps
    /\ UNCHANGED <<wifiStatus, store, advertising, lastConnectionState,
                   pendingClientDisconnect, wpc>>

\* startAdvertising(): the advertising state it leaves.
startAdvertising(initialized, adv) == IF ~initialized THEN adv ELSE TRUE

\* stopAdvertising(): the advertising state it leaves.
stopAdvertising(initialized, adv) == IF ~initialized THEN adv ELSE FALSE

\* ServerCallbacks::onDisconnect: the wait it starts after its two assignments.
OnDisconnectWait == <<Call("delay", DisconnectDelayMs)>>

\* The positions of performWiFiScanAndSend after the scan and of
\* sendWiFiNetworkList, where the cooperative thread reads clientConnected again
\* after each delay(100).
ListPositions == {"list", "entries"}

\* The peer is gone: the mark left in the log of a tick that is sending the list,
\* once for the losses between two of its stretches.
PeerDisconnected == Fx("event", "peerDisconnected", 0)

\* ServerCallbacks::onDisconnect up to its delay(500)
OnDisconnect ==
    /\ bleInitialized
    /\ wpc = "idle"
    /\ clientConnected
    /\ clientConnected' = FALSE
    /\ pendingClientDisconnect' = TRUE
    /\ wpc' = "restarting"
    /\ Ghost(OnDisconnectWait, PhaseHeld(wifiStatus), attempt)
    /\ tickLog' = IF pc \in ListPositions
                  THEN IF tickLog # <<>> /\ tickLog[Len(tickLog)] = PeerDisconnected
                       THEN tickLog
                       ELSE TickLogAfter(tickLog, <<PeerDisconnected>>)
                  ELSE IF pc \notin TickPositions THEN <<>>
                  ELSE IF \E i \in 1 .. Len(tickLog) : tickLog[i] = PeerAway
                       THEN tickLog
                  ELSE TickLogAfter(tickLog, <<PeerAway>>)
    /\ TransportLeaves
    /\ UNCHANGED <<wifiStatus, store, advertising, lastConnectionState,
                   pendingClientConnect>>

\* ServerCallbacks::onDisconnect after its delay(500): startAdvertising()
OnDisconnectResume ==
    /\ wpc = "restarting"
    /\ wpc' = "idle"
    /\ advertising' = startAdvertising(bleInitialized, advertising)
    /\ Ghost(<<Call("startAdvertising", 0)>>, PhaseHeld(wifiStatus), attempt)
    /\ TransportKeeps
    /\ UNCHANGED <<wifiStatus, store, clientConnected, lastConnectionState,
                   pendingClientConnect, pendingClientDisconnect>>

\* A variant of handleWiFiConnection that leaves the recorded state alone when the
\* attempt starts.
HandleStartState_Kept(recorded) == recorded

\* handleWiFiConnection: the state recorded when the connect attempt starts.
HandleStartState(recorded) == "CONNECTING"

\* A variant of handleWiFiConnection that leaves the result to the next tick.
HandleEndState_Deferred(result) == "CONNECTING"

\* handleWiFiConnection: the state recorded by the result of the attempt.
HandleEndState(result) ==
    IF result = "SUCCESS" THEN "CONNECTED" ELSE "CONNECTION_FAILED"

\* A variant of handleWiFiConnection that goes on whatever saveCredentials said.
ProceedsToConnect_Always(saved) == TRUE

\* handleWiFiConnection and connectWiFi go on to connect when the save succeeded.
ProceedsToConnect(saved) == saved

\* WiFiManager::connect: a station that is connected is disconnected first, and
\* WiFi.begin follows a delay(100).
DisconnectsFirst(status) == status = "WL_CONNECTED"

\* CredentialCharacteristicCallbacks::onWrite with onCredentialsReceived and
\* handleWiFiConnection, up to the first wait inside WiFiManager::connect.
OnWrite ==
    /\ bleInitialized
    /\ wpc = "idle"
    /\ clientConnected
    /\ \E data \in InboundFrames :
          LET c == parseCredentialWrite(data)
              polled == updateConnectionState(wifiStatus, credentialsConfigured)
          IN  IF Len(data) = 0
              THEN /\ Ghost(<<>>, PhaseHeld(wifiStatus), attempt)
                   /\ UNCHANGED <<wifiStatus, store, lastConnectionState,
                                  wpc>>
              ELSE IF ~c.isValid
              THEN /\ Ghost(<<Call("parseCredentialWrite", RejectedAt(data))>>
                            \o sendCredentialAck(bleInitialized, clientConnected,
                                                 AckStatusFor(c.err))
                            \o sendError(bleInitialized, clientConnected,
                                         "CREDENTIAL_WRITE_FAILED"),
                            PhaseHeld(wifiStatus), attempt)
                   /\ UNCHANGED <<wifiStatus, store, lastConnectionState,
                                  wpc>>
              ELSE \E o \in StoreOutcomes :
                   /\ store' = storeAfterSave(store, c.ssid, c.password, o)
                   /\ IF ~ProceedsToConnect(saveCredentials(c.ssid, c.password, o))
                      THEN /\ Ghost(<<Call("parseCredentialWrite", RejectedAt(data)),
                                      Callback("credentialsReceived", 0),
                                      Call("saveCredentials", BoolValue(FALSE))>>
                                    \o sendError(bleInitialized, clientConnected,
                                                 "STORAGE_ERROR")
                                    \o sendCredentialAck(bleInitialized, clientConnected, 0),
                                    PhaseHeld(wifiStatus), attempt)
                           /\ UNCHANGED <<wifiStatus, lastConnectionState,
                                          wpc>>
                      ELSE /\ lastConnectionState' = HandleStartState(lastConnectionState)
                           /\ wifiStatus' = "WL_DISCONNECTED"
                           /\ wpc' = IF DisconnectsFirst(wifiStatus)
                                     THEN "beginWait" ELSE "connecting"
                           /\ Ghost(<<Call("parseCredentialWrite", RejectedAt(data)),
                                      Callback("credentialsReceived", 0),
                                      Call("saveCredentials",
                                           BoolValue(saveCredentials(c.ssid, c.password, o)))>>
                                    \o sendStatusResponse(bleInitialized, clientConnected,
                                                          polled)
                                    \o (IF DisconnectsFirst(wifiStatus) THEN <<>>
                                        ELSE <<Call("WiFi.begin", 0)>>),
                                    IF lastConnectionState = "NOT_CONFIGURED"
                                       /\ polled = "NOT_CONFIGURED"
                                    THEN "connecting" ELSE "off",
                                    AttemptStarted(attempt, lastConnectionState))
    /\ TransportKeeps
    /\ UNCHANGED <<clientConnected, advertising, pendingClientConnect,
                   pendingClientDisconnect>>

\* WiFi.begin after the delay(100): the station starts a new association, or keeps
\* one that an attempt of the other context has made during the wait.
StatusAfterBegin(status) == {status, "WL_DISCONNECTED"}

\* handleWiFiConnection after WiFiManager::connect has returned, and the rest of
\* onWrite: the effects, in order.
HandleEndEffects(result) ==
    sendStatusResponse(bleInitialized, clientConnected,
                       updateConnectionState(ConnectEndStatus(result),
                                             credentialsConfigured))
    \o (IF result = "SUCCESS"
        THEN <<Callback("wifiConnected", 0)>>
        ELSE <<Callback("wifiConnectionFailed", 0)>>
             \o sendError(bleInitialized, clientConnected, "CONNECTION_TIMEOUT"))
    \o sendCredentialAck(bleInitialized, clientConnected, 0)

\* WiFiManager::connect inside onWrite, after the delay(100) that follows
\* WiFi.disconnect(): WiFi.begin, then up to the wait for the station or, the
\* station being connected at the first WiFi.status(), to the return of onWrite.
WriteBegin ==
    /\ wpc = "beginWait"
    /\ \E status \in StatusAfterBegin(wifiStatus) :
          /\ wifiStatus' = status
          /\ IF status = "WL_CONNECTED"
             THEN /\ wpc' = "idle"
                  /\ lastConnectionState' = HandleEndState("SUCCESS")
                  /\ Ghost(<<Call("WiFi.begin", 0)>> \o HandleEndEffects("SUCCESS"),
                           IF prov.phase = "connecting" THEN "connected" ELSE "off",
                           "SUCCESS")
             ELSE /\ wpc' = "connecting"
                  /\ lastConnectionState' = lastConnectionState
                  /\ Ghost(<<Call("WiFi.begin", 0)>>, PhaseHeld(status), attempt)
    /\ TransportKeeps
    /\ UNCHANGED <<store, clientConnected, advertising, pendingClientConnect,
                   pendingClientDisconnect>>

\* WiFiManager::connect returns to handleWiFiConnection, which returns to onWrite.
WriteResolve ==
    /\ wpc = "connecting"
    /\ \E obs \in ObservableNow(wifiStatus) :
          LET result == ConnectResult(obs)
          IN  /\ wifiStatus' = ConnectEndStatus(result)
              /\ lastConnectionState' = HandleEndState(result)
              /\ Ghost(HandleEndEffects(result),
                       IF prov.phase = "connecting" /\ result = "SUCCESS"
                       THEN "connected" ELSE "off",
                       result)
    /\ wpc' = "idle"
    /\ TransportKeeps
    /\ UNCHANGED <<store, clientConnected, advertising, pendingClientConnect,
                   pendingClientDisconnect>>


(***************************************************************************)
(* Public API of WiFiSetESP32, called by the application between ticks.    *)
(***************************************************************************)
ApiKeeps ==
    /\ TickLogKept
    /\ UNCHANGED <<elapsed, credentialsConfigured, bleInitialized, clientConnected,
                   lastConnectionState, pendingClientConnect,
                   pendingClientDisconnect, networks, idx, wpc>>

\* connectWiFi up to the first wait inside WiFiManager::connect
ConnectWiFi ==
    /\ pc = "idle"
    /\ bleInitialized
    /\ \E ssid \in ApiSsids, save \in BOOLEAN :
       \E o \in IF save THEN StoreOutcomes
                ELSE {[open |-> TRUE, ssidWritten |-> TRUE, passwordWritten |-> TRUE]} :
          /\ store' = IF save THEN storeAfterSave(store, ssid, Password1, o) ELSE store
          /\ LET saved == saveCredentials(ssid, Password1, o)
                 saving == IF save THEN <<Call("saveCredentials", BoolValue(saved))>>
                           ELSE <<>>
             IN  IF (save /\ ~ProceedsToConnect(saved)) \/ Len(ssid) = 0
                 THEN /\ Ghost(saving \o <<Return("connectWiFi", BoolValue(FALSE))>>,
                               PhaseHeld(wifiStatus), attempt)
                      /\ UNCHANGED <<wifiStatus, pc>>
                 ELSE /\ wifiStatus' = "WL_DISCONNECTED"
                      /\ pc' = IF DisconnectsFirst(wifiStatus)
                               THEN "beginWait" ELSE "connectWait"
                      /\ Ghost(saving \o (IF DisconnectsFirst(wifiStatus) THEN <<>>
                                         ELSE <<Call("WiFi.begin", 0)>>),
                               PhaseHeld("WL_DISCONNECTED"),
                               AttemptStarted(attempt, lastConnectionState))
    /\ ApiKeeps
    /\ UNCHANGED advertising

\* WiFiManager::connect inside connectWiFi, after the delay(100) that follows
\* WiFi.disconnect(): WiFi.begin, then up to the wait for the station or, the
\* station being connected at the first WiFi.status(), to the return of connectWiFi.
ConnectWiFiBegin ==
    /\ pc = "beginWait"
    /\ \E status \in StatusAfterBegin(wifiStatus) :
          /\ wifiStatus' = status
          /\ IF status = "WL_CONNECTED"
             THEN /\ pc' = "idle"
                  /\ Ghost(<<Call("WiFi.begin", 0),
                             Return("connectWiFi", BoolValue(TRUE))>>,
                           PhaseHeld(status), "SUCCESS")
             ELSE /\ pc' = "connectWait"
                  /\ Ghost(<<Call("WiFi.begin", 0)>>, PhaseHeld(status), attempt)
    /\ ApiKeeps
    /\ UNCHANGED <<store, advertising>>

\* WiFiManager::connect returns to connectWiFi.  A wait that times out has kept
\* the thread that calls loop() for more than ConnectTimeoutMs.
ConnectWiFiResolve ==
    /\ pc = "connectWait"
    /\ \E obs \in ObservableNow(wifiStatus) :
          LET result == ConnectResult(obs)
          IN  /\ wifiStatus' = ConnectEndStatus(result)
              /\ elapsed' = IF result = "FAILED_TIMEOUT"
                               /\ ElapsedMs <= ConnectTimeoutMs
                            THEN ConnectTimeoutMs \div ClockStepMs + 1
                            ELSE elapsed
              /\ Ghost(<<Return("connectWiFi", BoolValue(result = "SUCCESS"))>>,
                       PhaseHeld(ConnectEndStatus(result)), result)
    /\ pc' = "idle"
    /\ TickLogKept
    /\ UNCHANGED <<store, advertising, credentialsConfigured, bleInitialized,
                   clientConnected, lastConnectionState, pendingClientConnect,
                   pendingClientDisconnect, networks, idx, wpc>>

\* disconnectWiFi -> WiFiManager::disconnect
DisconnectWiFi ==
    /\ pc = "idle"
    /\ bleInitialized
    /\ wifiStatus' = "WL_DISCONNECTED"
    /\ Ghost(<<>>, PhaseHeld("WL_DISCONNECTED"), attempt)
    /\ ApiKeeps
    /\ UNCHANGED <<store, advertising, pc>>

\* clearCredentials: the value returned; false before NVSManager::begin has run.
clearCredentials(o) == o.initialized /\ o.open /\ o.cleared

\* A variant of clearCredentials that leaves the stored keys in place.
storeAfterClear_Kept(stored, o) == stored

\* clearCredentials: the store it leaves behind.
storeAfterClear(stored, o) ==
    IF o.initialized /\ o.open /\ o.cleared THEN NoCredential ELSE stored

\* The ssid key is empty when clearCredentials is called: loadCredentials would
\* report that no credential is stored, whatever the password key holds.
NothingStored == Fx("event", "nothingStored", 0)

\* clearCredentials: the Preferences calls it makes, with their results.
ClearCalls(o) ==
    IF ~o.initialized THEN <<>>
    ELSE <<Call("preferences.begin", BoolValue(o.open))>>
         \o (IF o.open THEN <<Call("preferences.clear", BoolValue(o.cleared))>>
             ELSE <<>>)

\* clearCredentials -> NVSManager::clearCredentials; it may be called before
\* begin(), which is where NVSManager::begin runs.
ClearCredentials ==
    /\ pc \in {"boot", "idle"}
    /\ \E o \in {c \in ClearOutcomes : c.initialized = (pc # "boot")} :
          /\ store' = storeAfterClear(store, o)
          /\ Ghost((IF Len(store.ssid) = 0 THEN <<NothingStored>> ELSE <<>>)
                   \o ClearCalls(o)
                   \o <<Return("clearCredentials", BoolValue(clearCredentials(o)))>>,
                   PhaseHeld(wifiStatus), attempt)
    /\ ApiKeeps
    /\ UNCHANGED <<wifiStatus, advertising, pc>>

\* getConnectionStatus -> WiFiManager::getConnectionState
GetConnectionStatus ==
    /\ pc = "idle"
    /\ bleInitialized
    /\ Ghost(<<Return("getConnectionStatus",
                      StatusValue(convertConnectionState(
                          updateConnectionState(wifiStatus, credentialsConfigured))))>>,
             PhaseHeld(wifiStatus), attempt)
    /\ ApiKeeps
    /\ UNCHANGED <<wifiStatus, store, advertising, pc>>

StartBLE ==
    /\ pc = "idle"
    /\ bleInitialized
    /\ advertising' = startAdvertising(bleInitialized, advertising)
    /\ Ghost(<<Call("startAdvertising", 0)>>, PhaseHeld(wifiStatus), attempt)
    /\ ApiKeeps
    /\ UNCHANGED <<wifiStatus, store, pc>>

StopBLE ==
    /\ pc = "idle"
    /\ bleInitialized
    /\ advertising' = stopAdvertising(bleInitialized, advertising)
    /\ Ghost(<<Call("stopAdvertising", 0)>>, PhaseHeld(wifiStatus), attempt)
    /\ ApiKeeps
    /\ UNCHANGED <<wifiStatus, store, pc>>

\* BLEService::isRunning
isRunning(initialized, adv) == initialized

\* isBLERunning -> BLEService::isRunning; it may be called before begin().
IsBLERunning ==
    /\ pc \in {"boot", "idle"}
    /\ Ghost(<<Return("isBLERunning", BoolValue(isRunning(bleInitialized, advertising)))>>,
             PhaseHeld(wifiStatus), attempt)
    /\ ApiKeeps
    /\ UNCHANGED <<wifiStatus, store, advertising, pc>>

(***************************************************************************)
(* Environment.                                                            *)
(***************************************************************************)
\* The station loses its access point.
LinkLost ==
    /\ wifiStatus = "WL_CONNECTED"
    /\ wifiStatus' = "WL_DISCONNECTED"
    /\ Ghost(<<>>, PhaseHeld("WL_DISCONNECTED"), attempt)
    /\ TickLogKept
    /\ UNCHANGED <<store, elapsed, credentialsConfigured, bleInitialized,
                   clientConnected, advertising, lastConnectionState,
                   pendingClientConnect, pendingClientDisconnect, pc, networks, idx,
                   wpc>>

\* The station joins the access point while a connect attempt waits for it; each
\* context reads the new status at its next WiFi.status().
LinkUp ==
    /\ {"connecting", "connectWait"} \cap {wpc, pc} # {}
    /\ wifiStatus # "WL_CONNECTED"
    /\ wifiStatus' = "WL_CONNECTED"
    /\ Ghost(<<>>, PhaseHeld("WL_CONNECTED"), attempt)
    /\ TickLogKept
    /\ UNCHANGED <<store, elapsed, credentialsConfigured, bleInitialized,
                   clientConnected, advertising, lastConnectionState,
                   pendingClientConnect, pendingClientDisconnect, pc, networks, idx,
                   wpc>>

\* Time passes between two ticks.
Advance ==
    /\ pc = "idle"
    /\ elapsed < MaxClock
    /\ elapsed' = elapsed + 1
    /\ Ghost(<<>>, PhaseHeld(wifiStatus), attempt)
    /\ TickLogKept
    /\ UNCHANGED <<wifiStatus, store, credentialsConfigured, bleInitialized,
                   clientConnected, advertising, lastConnectionState,
                   pendingClientConnect, pendingClientDisconnect, pc, networks, idx,
                   wpc>>

Next ==
    \/ Begin
    \/ LoopTick
    \/ LoopConnect
    \/ LoopScan
    \/ LoopListStart
    \/ LoopSendEntry
    \/ LoopFinish
    \/ OnConnect
    \/ OnDisconnect
    \/ OnDisconnectResume
    \/ OnWrite
    \/ WriteBegin
    \/ WriteResolve
    \/ ConnectWiFi
    \/ ConnectWiFiBegin
    \/ ConnectWiFiResolve
    \/ DisconnectWiFi
    \/ ClearCredentials
    \/ GetConnectionStatus
    \/ StartBLE
    \/ StopBLE
    \/ IsBLERunning
    \/ LinkLost
    \/ LinkUp
    \/ Advance

Spec == Init /\ [][Next]_vars

\* The same program with one history variable kept.
SpecProv == InitWatching({"prov"}) /\ [][Next]_vars
SpecAttempt == InitWatching({"attempt"}) /\ [][Next]_vars
SpecNotified == InitWatching({"lastNotified"}) /\ [][Next]_vars
SpecTick == InitWatching({"tickLog"}) /\ [][Next]_vars
SpecArrived == InitWatching({"arrived"}) /\ [][Next]_vars

\* The steps of the program whose peer, once connected, stays connected, and whose
\* radio finds any number of networks.
NextList ==
    \/ Begin
    \/ LoopTick
    \/ LoopConnect
    \/ LoopScanWide
    \/ LoopListStart
    \/ LoopSendEntry
    \/ LoopFinish
    \/ OnConnect
    \/ OnWrite
    \/ WriteBegin
    \/ WriteResolve
    \/ ConnectWiFi
    \/ ConnectWiFiBegin
    \/ ConnectWiFiResolve
    \/ DisconnectWiFi
    \/ ClearCredentials
    \/ GetConnectionStatus
    \/ StartBLE
    \/ StopBLE
    \/ IsBLERunning
    \/ LinkLost
    \/ LinkUp
    \/ Advance

SpecList == InitWatching({"tickLog"}) /\ [][NextList]_vars

\* A step of the cooperative thread inside loop().
Loop ==
    \/ LoopTick
    \/ LoopConnect
    \/ LoopScan
    \/ LoopListStart
    \/ LoopSendEntry
    \/ LoopFinish

\* The program whose application keeps calling loop(): a tick starts again and
\* again, goes on after each of its waits, and a connect attempt of the
\* application goes on after its delay(100) and ends.
SpecLoop ==
    /\ InitWatching({"arrived"})
    /\ [][Next]_vars
    /\ SF_vars(Loop)
    /\ WF_vars(ConnectWiFiBegin)
    /\ WF_vars(ConnectWiFiResolve)

(***************************************************************************)
(* Properties.                                                             *)
(***************************************************************************)
\* What getConnectionStatus() returns in the current state.
ReportedStatus ==
    convertConnectionState(updateConnectionState(wifiStatus, credentialsConfigured))

\* Every element of the sequence e satisfies the test.
AllOf(e, Test(_)) == \A i \in 1 .. Len(e) : Test(e[i])

\* C1: a provisioning run that starts in NOT_CONFIGURED with a peer connected and
\* whose connect attempt succeeds ends with the state CONNECTED recorded and, once
\* a tick has run after it, with exactly two invocations of the status-change
\* notification, one for CONNECTING and one for CONNECTED.
C1_TwoNotifications ==
    /\ prov.phase \in {"connected", "settled"} => lastConnectionState = "CONNECTED"
    /\ prov.phase = "settled" => prov.n = 2

\* C2: a step that changes the recorded state while a peer is connected emits a
\* STATUS_RESPONSE frame, and every such frame of the step carries the new state.
C2_FrameCarriesNewState ==
    [][(clientConnected /\ clientConnected'
        /\ lastConnectionState' # lastConnectionState)
       => /\ FramesOf(fx', "STATUS_RESPONSE") # <<>>
          /\ AllOf(FramesOf(fx', "STATUS_RESPONSE"),
                   LAMBDA f : f.v = StateByte(lastConnectionState'))]_vars

\* C3: once begin() has returned, no step notifies while the polled state equals
\* the recorded one; a step that changes the recorded state notifies exactly once;
\* a notification never carries the state the one before it carried.
C3_OncePerChange ==
    [][LET cbs == StatusCallbacks(fx')
       IN  pc # "boot"
           => /\ updateConnectionState(wifiStatus, credentialsConfigured)
                    = lastConnectionState => cbs = <<>>
              /\ lastConnectionState' # lastConnectionState => Len(cbs) = 1
              /\ cbs # <<>> => cbs[1].v # lastNotified]_vars

\* C4: while the latest connect attempt stands failed, getConnectionStatus() reports
\* CONNECTION_FAILED, and so does every notification and STATUS_RESPONSE frame.
C4_FailedIsReported ==
    attempt \in FailedResults
    => /\ ReportedStatus = "STATUS_CONNECTION_FAILED"
       /\ AllOf(StatusCallbacks(fx),
                LAMBDA c : c.v = StatusValue("STATUS_CONNECTION_FAILED"))
       /\ AllOf(FramesOf(fx, "STATUS_RESPONSE"),
                LAMBDA f : f.v = StateByte("CONNECTION_FAILED"))

\* C5: a tick that finds the link lost while CONNECTED is recorded records
\* CONFIGURED_NOT_CONNECTED and notifies once, with CONFIGURED_NOT_CONNECTED.
C5_LinkLostIsConfigured ==
    [][(CallsOf(fx', "monitorConnection") # <<>>
        /\ lastConnectionState = "CONNECTED"
        /\ wifiStatus # "WL_CONNECTED")
       => /\ lastConnectionState' = "CONFIGURED_NOT_CONNECTED"
          /\ StatusCallbacks(fx')
                = <<Callback("connectionStatus",
                             StatusValue("STATUS_CONFIGURED_NOT_CONNECTED"))>>]_vars

\* C6: while a credential is stored, getConnectionStatus() does not report
\* NOT_CONFIGURED and no notification carries it.
C6_StoredMeansConfigured ==
    (pc # "boot" /\ loadCredentials(store, LoadOk).isValid)
    => /\ ReportedStatus # "STATUS_NOT_CONFIGURED"
       /\ AllOf(StatusCallbacks(fx),
                LAMBDA c : c.v # StatusValue("STATUS_NOT_CONFIGURED"))

\* C7: when the latest connect attempt has failed, a valid credential write whose
\* save succeeds records CONNECTING and starts a new connect attempt: it calls
\* WiFi.begin in the same step, or, the station being connected, after the wait
\* that follows WiFi.disconnect(), a wait that always ends in WiFi.begin.
C7_RetryAfterFailure ==
    [][/\ (attempt \in FailedResults
           /\ CallbacksOf(fx', "credentialsReceived") # <<>>
           /\ FramesOf(fx', "ERROR") = <<>>)
          => /\ lastConnectionState' = "CONNECTING"
             /\ IF wifiStatus = "WL_CONNECTED"
                THEN wpc' = "beginWait"
                ELSE CallsOf(fx', "WiFi.begin") # <<>> /\ wpc' = "connecting"
             /\ loadCredentials(store', LoadOk).isValid
       /\ wpc = "beginWait" => ENABLED WriteBegin
       /\ (wpc = "beginWait" /\ wpc' # "beginWait")
          => /\ CallsOf(fx', "WiFi.begin") # <<>>
             /\ \/ wpc' = "connecting"
                \/ wpc' = "idle" /\ wifiStatus' = "WL_CONNECTED"]_vars

\* A write accepted while CONNECTION_FAILED was recorded has started an attempt.
C7_Witness ==
    /\ attempt = "retryingFromFailed"
    /\ lastConnectionState = "CONNECTING"
    /\ wpc = "connecting"
    /\ CallbacksOf(fx, "credentialsReceived") # <<>>

\* C8: begin() with a stored credential makes its connect attempt before it decides
\* on advertising; it returns with advertising not started when the attempt
\* succeeded, and with advertising started when it failed or nothing is stored.
C8_BeginAdvertising ==
    [][(pc = "boot" /\ pc' = "idle")
       => LET hasCredential ==
                  \E o \in {l \in LoadOutcomes : l.initialized} :
                     /\ fx'[1] = Call("preferences.begin", BoolValue(o.open))
                     /\ loadCredentials(store, o).isValid
              connected == wifiStatus' = "WL_CONNECTED"
          IN  /\ hasCredential => fx'[2] = Call("WiFi.begin", 0)
              /\ (hasCredential /\ connected)
                 => ~advertising' /\ CallsOf(fx', "startAdvertising") = <<>>
              /\ (~hasCredential \/ ~connected)
                 => advertising' /\ fx'[Len(fx')] = Call("startAdvertising", 0)]_vars

\* begin() has returned after a successful boot attempt, advertising not started.
C8_Witness ==
    /\ pc = "idle"
    /\ fx = <<Call("preferences.begin", 1), Call("WiFi.begin", 0),
              Callback("wifiConnected", 0)>>
    /\ wifiStatus = "WL_CONNECTED"
    /\ ~advertising

\* C9: a step of ServerCallbacks::onConnect or onDisconnect changes clientConnected
\* and one pending flag and nothing else: no callback, call, wait or frame, and no
\* change of the advertising state.
C9_OnlyFlags ==
    [][(clientConnected' # clientConnected)
       => /\ fx' = <<>>
          /\ advertising' = advertising
          /\ clientConnected' => pendingClientConnect'
          /\ ~clientConnected' => pendingClientDisconnect'
          /\ UNCHANGED <<wifiStatus, store, lastConnectionState, pc, wpc,
                         networks, idx, elapsed>>]_vars

\* The places of the entry x in the log e.
Places(e, x) == {i \in 1 .. Len(e) : e[i] = x}

ListFrameTypes == {"WIFI_LIST_START", "WIFI_NETWORK_ENTRY", "WIFI_LIST_END"}

\* C10: in a tick that ran the deferred connect and the deferred disconnect, the
\* connect callback, the scan, every frame of the list and the status push come,
\* in this order, before the disconnect callback.
C10_ConnectPathFirst ==
    \A d \in Places(tickLog, Callback("bleClientDisconnected", 0)) :
        Places(tickLog, Callback("bleClientConnected", 0)) # {}
        => \E s \in 1 .. Len(tickLog), p \in Places(tickLog, Call("sendCurrentStatus", 0)) :
              /\ tickLog[2] = Callback("bleClientConnected", 0)
              /\ tickLog[s].k = "call" /\ tickLog[s].a = "scanNetworks"
              /\ 2 < s /\ s < p /\ p < d
              /\ \A i \in 1 .. Len(tickLog) :
                    (tickLog[i].k = "frame" /\ tickLog[i].a \in ListFrameTypes)
                    => s < i /\ i < p
              /\ \A i \in 1 .. Len(tickLog) :
                    (tickLog[i].k = "frame" /\ tickLog[i].a = "STATUS_RESPONSE"
                     /\ i < d) => i = p + 1

\* A tick entered with both flags set has finished: it sent a list to the peer and
\* then ran the deferred disconnect.
C10_Witness ==
    /\ pc = "idle"
    /\ Places(tickLog, Call("loop", BoolValue(TRUE))) # {}
    /\ Places(tickLog, Callback("bleClientConnected", 0)) # {}
    /\ Places(tickLog, Callback("bleClientDisconnected", 0)) # {}
    /\ Places(tickLog, Frame("WIFI_LIST_END", MaxNetworks)) # {}

\* The entry e of a log is a frame of the network list.
IsListFrame(e) == e.k = "frame" /\ e.a \in ListFrameTypes

\* C11: once the peer has disconnected during the transmission of the list, after
\* WIFI_LIST_START, the tick delivers no further frame of the list - no entry and
\* no WIFI_LIST_END - and the next step of the transmission leaves it.
C11_NoListFrameAfterDisconnect ==
    \A b \in Places(tickLog, Frame("WIFI_LIST_START", 0)),
       d \in Places(tickLog, PeerDisconnected) :
        b < d
        => /\ \A i \in (d + 1) .. Len(tickLog) : ~IsListFrame(tickLog[i])
           /\ pc \in ListPositions => d = Len(tickLog)

\* C13: a tick that ran the connect path to its end with the peer connected all
\* the way sent, before monitorConnection, exactly these frames in this order:
\* WIFI_LIST_START, one WIFI_NETWORK_ENTRY for each network the radio found up to
\* 50, a WIFI_LIST_END whose count is the number of those entries (255 at most),
\* and one STATUS_RESPONSE, which follows the call of sendCurrentStatus.  A scan
\* that fails counts as one that found nothing.
C13_ListThenStatus ==
    \A c \in Places(tickLog, Callback("bleClientConnected", 0)),
       m \in Places(tickLog, Call("monitorConnection", 0)) :
        (Places(tickLog, PeerAway) = {} /\ Places(tickLog, PeerDisconnected) = {})
        => LET path == SubSeq(tickLog, 1, m - 1)
               sent == SelectSeq(path, LAMBDA x : x.k = "frame")
               scans == SelectSeq(path,
                                  LAMBDA x : x.k = "call" /\ x.a = "scanNetworks")
               found == IF scans = <<>> THEN 0 ELSE scans[1].v
               n == IF found < 0 THEN 0 ELSE IF found > 50 THEN 50 ELSE found
           IN  /\ Len(scans) = 1
               /\ Len(sent) = n + 3
               /\ sent[1] = Frame("WIFI_LIST_START", 0)
               /\ \A i \in 1 .. n : sent[1 + i] = Frame("WIFI_NETWORK_ENTRY", i - 1)
               /\ sent[n + 2] = Frame("WIFI_LIST_END", IF n > 255 THEN 255 ELSE n)
               /\ sent[n + 3].a = "STATUS_RESPONSE"
               /\ \E p \in Places(path, Call("sendCurrentStatus", 0)) :
                     /\ p < Len(path) /\ path[p + 1] = sent[n + 3]
                     /\ \A i \in p + 2 .. Len(path) : path[i].k # "frame"

\* A tick whose scan found more networks than scanNetworks() keeps has finished with
\* the peer connected all the way: it sent 50 entries and a WIFI_LIST_END of 50.
C13_Witness ==
    /\ pc = "idle"
    /\ Places(tickLog, Call("scanNetworks", MaxFound)) # {}
    /\ Places(tickLog, Call("monitorConnection", 0)) # {}
    /\ Places(tickLog, PeerAway) = {} /\ Places(tickLog, PeerDisconnected) = {}
    /\ Places(tickLog, Frame("WIFI_NETWORK_ENTRY", MaxScanResults - 1)) # {}
    /\ Places(tickLog, Frame("WIFI_NETWORK_ENTRY", MaxScanResults)) = {}
    /\ Places(tickLog, Frame("WIFI_LIST_END", MaxScanResults)) # {}

\* C12: a step runs the connect callback at most once and the disconnect callback
\* at most once.  The connect callback runs exactly in the first step of a tick
\* entered with pendingClientConnect set, which clears the flag and takes up every
\* connect notification that was waiting; the disconnect callback runs exactly in
\* the last step of a tick that finds pendingClientDisconnect set, and the last
\* step of every tick leaves that flag cleared.
C12_OncePerTick ==
    [][LET c == CallbacksOf(fx', "bleClientConnected")
           d == CallbacksOf(fx', "bleClientDisconnected")
           last == CallsOf(fx', "monitorConnection") # <<>>
           first == pc = "idle" /\ (pc' = "scan" \/ last)
       IN  /\ Len(c) <= 1 /\ Len(d) <= 1
           /\ Len(c) = 1 <=> (first /\ pendingClientConnect)
           /\ Len(c) = 1 => ~pendingClientConnect' /\ arrived'.n = 0
           /\ Len(d) = 1 <=> (last /\ pendingClientDisconnect)
           /\ last => ~pendingClientDisconnect']_vars

\* Two connect notifications were waiting and one run of the connect path took both.
C12_Witness ==
    /\ arrived.batch = MaxArrivals
    /\ pc = "scan"
    /\ fx = <<Callback("bleClientConnected", 0)>>
    /\ ~pendingClientConnect

\* The step has called saveCredentials and the save failed.
SaveFailed(e) == CallsOf(e, "saveCredentials") = <<Call("saveCredentials", 0)>>

\* C14: a step in which saveCredentials failed starts no connect attempt: it does
\* not call WiFi.begin, leaves the recorded state and the station as they were and
\* no attempt waiting in either context; as a step of connectWiFi it returns false.
C14_NoAttemptAfterFailedSave ==
    [][SaveFailed(fx')
       => /\ CallsOf(fx', "WiFi.begin") = <<>>
          /\ lastConnectionState' = lastConnectionState
          /\ wifiStatus' = wifiStatus
          /\ wpc' = wpc /\ pc' = pc
          /\ CallbacksOf(fx', "credentialsReceived") = <<>>
             => fx'[Len(fx')] = Return("connectWiFi", 0)]_vars

\* A write was parsed, its save failed, and nothing waits for a connection.
C14_Witness ==
    /\ SaveFailed(fx)
    /\ CallbacksOf(fx, "credentialsReceived") # <<>>
    /\ wpc = "idle" /\ pc = "idle"
    /\ lastConnectionState # "CONNECTING"

\* C15: a CREDENTIAL_WRITE_ACK with status 0 comes only from a write that was
\* parsed and stored, and the write whose save failed is acknowledged with 3.
C15_AckTellsStored ==
    [][/\ (\E i \in 1 .. Len(fx') : fx'[i] = Frame("CREDENTIAL_WRITE_ACK", 0))
          => ~SaveFailed(fx')
       /\ (SaveFailed(fx') /\ CallbacksOf(fx', "credentialsReceived") # <<>>)
          => FramesOf(fx', "CREDENTIAL_WRITE_ACK") = <<Frame("CREDENTIAL_WRITE_ACK", 3)>>]_vars

\* The step has parsed a write and the parser rejected it; the value is where.
Rejections(e) ==
    SelectSeq(e, LAMBDA x : x.k = "call" /\ x.a = "parseCredentialWrite" /\ x.v # 0)

\* C16: the step that rejects a non-empty write of the connected peer sends two
\* frames, a CREDENTIAL_WRITE_ACK with a status other than 0 and then an ERROR;
\* it runs no credentials-received callback, saves nothing, and leaves the store,
\* the recorded state and the station as they were.
C16_RejectedWrite ==
    [][Rejections(fx') # <<>>
       => LET sent == SelectSeq(fx', LAMBDA x : x.k = "frame")
          IN  /\ clientConnected /\ clientConnected'
              /\ Len(sent) = 2
              /\ sent[1].a = "CREDENTIAL_WRITE_ACK" /\ sent[1].v # 0
              /\ sent[2].a = "ERROR"
              /\ CallbacksOf(fx', "credentialsReceived") = <<>>
              /\ CallsOf(fx', "saveCredentials") = <<>>
              /\ CallsOf(fx', "WiFi.begin") = <<>>
              /\ UNCHANGED <<store, lastConnectionState, wifiStatus, wpc>>]_vars

\* A write whose SSID field was rejected has been answered.
C16_Witness ==
    /\ fx = <<Call("parseCredentialWrite", 2),
              Frame("CREDENTIAL_WRITE_ACK", 1),
              Frame("ERROR", ErrorCodeByte("CREDENTIAL_WRITE_FAILED"))>>
    /\ store.ssid = Ssid1

\* C17: the status of the CREDENTIAL_WRITE_ACK names the field the parser rejected:
\* 2 for the password field, 1 for the SSID field.
C17_AckNamesField ==
    [][\A i \in 1 .. Len(Rejections(fx')) :
          /\ Rejections(fx')[i].v = 3
             => FramesOf(fx', "CREDENTIAL_WRITE_ACK") = <<Frame("CREDENTIAL_WRITE_ACK", 2)>>
          /\ Rejections(fx')[i].v = 2
             => FramesOf(fx', "CREDENTIAL_WRITE_ACK") = <<Frame("CREDENTIAL_WRITE_ACK", 1)>>]_vars

\* C18: two connect attempts are never in progress together: while connectWiFi
\* waits inside WiFiManager::connect no write starts an attempt of its own or
\* changes the recorded state, and connectWiFi starts none while a write waits.
C18_OneAttempt ==
    [][/\ ~(wpc' = "connecting" /\ pc' = "connectWait")
       /\ (pc = "connectWait" /\ pc' = "connectWait")
          => /\ lastConnectionState' = lastConnectionState
             /\ CallsOf(fx', "WiFi.begin") = <<>>]_vars

\* C19: connectWiFi goes through the transitions of a received write: the step
\* that starts its attempt records CONNECTING and sends a STATUS_RESPONSE to a
\* connected peer; the step in which the attempt returns records CONNECTED or
\* CONNECTION_FAILED, sends a STATUS_RESPONSE to a connected peer and runs the
\* connected or the connection-failed callback.
C19_SameAsWrite ==
    [][/\ (pc = "idle" /\ pc' = "connectWait")
          => /\ lastConnectionState' = "CONNECTING"
             /\ clientConnected => FramesOf(fx', "STATUS_RESPONSE") # <<>>
       /\ (pc = "connectWait" /\ pc' = "idle")
          => LET ok == \E i \in 1 .. Len(fx') : fx'[i] = Return("connectWiFi", 1)
             IN  /\ lastConnectionState' = IF ok THEN "CONNECTED"
                                           ELSE "CONNECTION_FAILED"
                 /\ clientConnected => FramesOf(fx', "STATUS_RESPONSE") # <<>>
                 /\ CallbacksOf(fx', IF ok THEN "wifiConnected"
                                     ELSE "wifiConnectionFailed") # <<>>]_vars

\* C20: at the end of a tick that finds a peer connected and the state as it was
\* recorded, monitorConnection sends one STATUS_RESPONSE, and takes the time as
\* that of its last status update, when more than 10000 ms have passed since the
\* last one; otherwise it sends nothing and the time runs on.
C20_PeriodicStatus ==
    [][\A m \in Places(fx', Call("monitorConnection", 0)) :
          (clientConnected /\ lastConnectionState' = lastConnectionState)
          => LET after == SubSeq(fx', m + 1, Len(fx'))
             IN  IF elapsed * ClockStepMs > 10000
                 THEN /\ Len(after) = 1 /\ after[1].k = "frame"
                      /\ after[1].a = "STATUS_RESPONSE"
                      /\ elapsed' = 0
                 ELSE after = <<>> /\ elapsed' = elapsed]_vars

\* A tick has just re-announced the unchanged state to the peer, and the interval
\* starts again.
C20_Witness ==
    /\ pc = "idle" /\ clientConnected /\ elapsed = 0
    /\ Len(fx) = 2
    /\ fx[1] = Call("monitorConnection", 0)
    /\ fx[2] = Frame("STATUS_RESPONSE", StateByte(lastConnectionState))

(***************************************************************************)
(* ProtocolHandler on its own: the parser applied to frames a peer may     *)
(* write.  codec holds the function applied last, its input and result.    *)
(***************************************************************************)
\* n bytes of text: the byte at place i is base + i % period.
Text(n, base, period) == [i \in 1 .. n |-> base + (i % period)]

SsidText(n) == Text(n, 97, 7)
PasswordText(n) == Text(n, 48, 5)

\* A frame with the header [type, sequence, length low, length high], where length
\* is the length declared, and the payload given.
RawFrame(type, declared, payload) ==
    <<type, 0, declared % 256, (declared \div 256) % 256>> \o payload

\* The payload of a CREDENTIAL_WRITE: ssid_len, ssid, password_len, password.
CredentialPayload(ssid, password) ==
    <<Len(ssid)>> \o ssid \o <<Len(password)>> \o password

\* The CREDENTIAL_WRITE frame a peer sends for ssid and password.
CredentialWriteFrame(ssid, password) ==
    RawFrame(MessageTypeByte("CREDENTIAL_WRITE"),
             Len(CredentialPayload(ssid, password)),
             CredentialPayload(ssid, password))

\* All but the last byte of a sequence.
Front(q) == SubSeq(q, 1, Len(q) - 1)

\* The lengths at the edges of what the parser accepts.
EdgeSsidBytes == {0, 1, MaxSsidLen, MaxSsidBytes}
EdgePasswordBytes == {0, 1, MaxPasswordLen, MaxPasswordBytes}

\* Payload lengths declared in a header, and the payload bytes that follow it.
DeclaredLengths == {0, 1, 10, MaxProbeBytes - 1, MaxProbeBytes}
PhysicalLengths == {0, 1, 9, 10, 11, MaxProbeBytes - 1, MaxProbeBytes}

\* The frames put to the parser: every CREDENTIAL_WRITE for an SSID and a password
\* within the bounds, as sent; and for the lengths at the edges, the frame with its
\* last byte lost (with the length declared for the whole, or for what is left),
\* with a byte too many (declared or not), with another type, and cut inside its
\* header; and headers declaring one length before a payload of another.
ParserInputs ==
    {[data |-> CredentialWriteFrame(SsidText(a), PasswordText(b)),
      ssid |-> SsidText(a), password |-> PasswordText(b), shape |-> "sent"] :
        a \in 0 .. MaxSsidBytes, b \in 0 .. MaxPasswordBytes}
    \cup
    UNION {LET ssid == SsidText(a)
              password == PasswordText(b)
              sent == CredentialWriteFrame(ssid, password)
              payload == CredentialPayload(ssid, password)
          IN  {[data |-> Front(sent), ssid |-> ssid, password |-> password,
                shape |-> "short"],
               [data |-> RawFrame(16, Len(payload) - 1, Front(payload)),
                ssid |-> ssid, password |-> password, shape |-> "cut"],
               [data |-> sent \o <<0>>, ssid |-> ssid, password |-> password,
                shape |-> "long"],
               [data |-> RawFrame(16, Len(payload) + 1, payload \o <<0>>),
                ssid |-> ssid, password |-> password, shape |-> "padded"],
               [data |-> RawFrame(MessageTypeByte("STATUS_REQUEST"), Len(payload),
                                  payload),
                ssid |-> ssid, password |-> password, shape |-> "type"],
               [data |-> SubSeq(sent, 1, 3), ssid |-> ssid, password |-> password,
                shape |-> "header"]} :
          a \in EdgeSsidBytes, b \in EdgePasswordBytes}
    \cup
    {[data |-> RawFrame(MessageTypeByte("STATUS_REQUEST"), declared,
                        Text(physical, 0, 1)),
      ssid |-> <<>>, password |-> <<>>, shape |-> "probe"] :
        declared \in DeclaredLengths, physical \in PhysicalLengths}

\* A frame has arrived and nothing has been applied to it yet.
InitParser ==
    /\ SessionConstructed({})
    /\ store = NoCredential
    /\ \E given \in ParserInputs :
          codec = [fn |-> "input", data |-> given.data, ssid |-> given.ssid,
                   password |-> given.password, shape |-> given.shape]

\* The frame that arrived with the function applied to it and the result.
Applied(fn, out) ==
    [fn |-> fn, data |-> codec.data, ssid |-> codec.ssid,
     password |-> codec.password, shape |-> codec.shape, out |-> out]

ParseCredentialWrite ==
    /\ codec.fn = "input"
    /\ codec' = Applied("parseCredentialWrite", parseCredentialWrite(codec.data))
    /\ UNCHANGED sessionVars

ValidateMessage ==
    /\ codec.fn = "input"
    /\ codec' = Applied("validateMessage", validateMessage(codec.data))
    /\ UNCHANGED sessionVars

ParseHeader ==
    /\ codec.fn = "input"
    /\ codec' = Applied("parseHeader", parseHeader(codec.data))
    /\ UNCHANGED sessionVars

\* extractString on the payload of the frame, as parseCredentialWrite calls it for
\* the SSID, or with the limit of the password; available is what the caller says
\* is left: nothing, the length byte alone, one byte too few, or all of it.
ExtractString ==
    /\ codec.fn = "input"
    /\ Len(codec.data) >= 4
    /\ LET payload == SubSeq(codec.data, 5, Len(codec.data))
       IN  \E maxLength \in {MaxSsidLen, MaxPasswordLen},
              available \in {0, Len(payload)}
                            \cup (IF payload = <<>> THEN {}
                                  ELSE {1, payload[1]} \cap (0 .. Len(payload))) :
              codec' = [fn |-> "extractString", data |-> payload,
                        available |-> available, maxLength |-> maxLength,
                        out |-> extractString(payload, available, maxLength)]
    /\ UNCHANGED sessionVars

\* The sequence bytes a peer may send after its first frame.
SequenceBytes == {1, 128, 255}

\* The frame data with another sequence byte.
Resequenced(data, sequence) ==
    [i \in 1 .. Len(data) |-> IF i = 2 THEN sequence ELSE data[i]]

\* The three entry points of the parser applied to the frame sent with another
\* sequence byte.
ParseResequenced ==
    /\ codec.fn = "input"
    /\ Len(codec.data) >= 2
    /\ \E sequence \in SequenceBytes :
          LET data == Resequenced(codec.data, sequence)
          IN  codec' = [fn |-> "resequenced", data |-> data, first |-> codec.data,
                        validated |-> validateMessage(data),
                        credential |-> parseCredentialWrite(data),
                        statusRequest |-> parseStatusRequest(data)]
    /\ UNCHANGED sessionVars

NextParser ==
    \/ ParseCredentialWrite
    \/ ValidateMessage
    \/ ParseHeader
    \/ ExtractString
    \/ ParseResequenced

SpecParser == InitParser /\ [][NextParser]_vars

\* C21: the parser, given the CREDENTIAL_WRITE frame as sent for an SSID of 1 to
\* 32 bytes and a password of 0 to 63 bytes, returns a valid credential with
\* exactly that SSID and that password.
C21_RoundTrip ==
    (/\ codec.fn = "parseCredentialWrite"
     /\ codec.shape = "sent"
     /\ Len(codec.ssid) \in 1 .. 32
     /\ Len(codec.password) \in 0 .. 63)
    => /\ codec.out.isValid
       /\ codec.out.ssid = codec.ssid
       /\ codec.out.password = codec.password

\* The longest SSID and the longest password have come back from the parser.
C21_Witness ==
    /\ codec.fn = "parseCredentialWrite"
    /\ codec.shape = "sent"
    /\ Len(codec.ssid) = 32 /\ Len(codec.password) = 63
    /\ codec.out.isValid
    /\ Len(codec.out.ssid) = 32 /\ Len(codec.out.password) = 63

\* The frame d is a whole CREDENTIAL_WRITE: the length declared is the length of
\* its payload, its type is 0x10, an SSID of 1 to 32 bytes lies within the payload
\* and a password of 0 to 63 bytes lies within what follows.
WholeCredentialWrite(d) ==
    /\ Len(d) >= 4
    /\ Len(d) = 4 + d[3] + 256 * d[4]
    /\ d[1] = 16
    /\ Len(d) >= 5
    /\ d[5] \in 1 .. 32
    /\ Len(d) >= 6 + d[5]
    /\ d[6 + d[5]] \in 0 .. 63
    /\ Len(d) >= 6 + d[5] + d[6 + d[5]]

\* C22: parseCredentialWrite returns a valid credential exactly for a whole
\* CREDENTIAL_WRITE, with the SSID and the password the frame holds; every other
\* result is invalid with an empty SSID and an empty password.
C22_ValidOrEmpty ==
    codec.fn = "parseCredentialWrite"
    => LET d == codec.data
       IN  /\ codec.out.isValid <=> WholeCredentialWrite(d)
           /\ codec.out.isValid
              => /\ codec.out.ssid = SubSeq(d, 6, 5 + d[5])
                 /\ codec.out.password =
                       SubSeq(d, 7 + d[5], 6 + d[5] + d[6 + d[5]])
           /\ ~codec.out.isValid
              => codec.out.ssid = <<>> /\ codec.out.password = <<>>

\* A frame whose password field was cut has been refused, with nothing of its SSID
\* in the result.
C22_Witness ==
    /\ codec.fn = "parseCredentialWrite"
    /\ codec.shape = "cut"
    /\ Len(codec.ssid) = 32 /\ Len(codec.password) = 63
    /\ ~codec.out.isValid
    /\ codec.out.ssid = <<>>

\* C23: validateMessage accepts a buffer exactly when it has at least 4 bytes and
\* 4 plus the length in its bytes 2 and 3, low byte first, is its length.
C23_ExactLength ==
    codec.fn = "validateMessage"
    => LET d == codec.data
       IN  codec.out.ok <=> (Len(d) >= 4 /\ Len(d) = 4 + d[3] + 256 * d[4])

\* A buffer one byte shorter than its header declares has been refused.
C23_Witness ==
    /\ codec.fn = "validateMessage"
    /\ codec.shape = "probe"
    /\ Len(codec.data) = 4 + 9
    /\ codec.data[3] = 10
    /\ ~codec.out.ok

\* C27: extractString refuses a declared length above max_len as exceeding it;
\* it refuses for want of data when no length byte is left or fewer bytes are left
\* than 1 + the declared length; otherwise it returns the declared bytes, and
\* 1 + the declared length as the bytes consumed.
C27_ExtractString ==
    codec.fn = "extractString"
    => LET d == codec.data
           a == codec.available
           out == codec.out
       IN  /\ (a >= 1 /\ d[1] > codec.maxLength)
              => ~out.ok /\ out.err = "String length exceeds maximum"
           /\ (a < 1 \/ (d[1] <= codec.maxLength /\ a < 1 + d[1]))
              => /\ ~out.ok
                 /\ out.err \in {"Not enough data for string length",
                                 "Not enough data for string content"}
           /\ (a >= 1 /\ d[1] <= codec.maxLength /\ a >= 1 + d[1])
              => /\ out.ok
                 /\ out.str = [i \in 1 .. d[1] |-> d[i + 1]]
                 /\ out.bytesRead = 1 + d[1]

\* A declared SSID length of 33, with all its bytes there, has been refused.
C27_Witness ==
    /\ codec.fn = "extractString"
    /\ codec.maxLength = 32
    /\ codec.available >= 34
    /\ codec.data[1] = 33
    /\ ~codec.out.ok
    /\ codec.out.err = "String length exceeds maximum"

(***************************************************************************)
(* MessageBuilder on its own.  A frame is the sequence of its bytes; every *)
(* build function takes the sequence counter and is followed by            *)
(* incrementSequence.                                                      *)
(***************************************************************************)
\* The value of an unsigned 8-bit variable assigned n.
U8(n) == n % 256

\* A variant of buildHeader that writes the high byte of the length first.
buildHeader_HighFirst(type, payloadLength, sequenceCounter) ==
    <<MessageTypeByte(type), sequenceCounter,
      (payloadLength \div 256) % 256, payloadLength % 256>>

buildHeader(type, payloadLength, sequenceCounter) ==
    <<MessageTypeByte(type), sequenceCounter,
      payloadLength % 256, (payloadLength \div 256) % 256>>

\* A variant of incrementSequence that stays at 255.
incrementSequence_Saturating(sequenceCounter) ==
    IF sequenceCounter = 255 THEN 255 ELSE sequenceCounter + 1

incrementSequence(sequenceCounter) == U8(sequenceCounter + 1)

buildWiFiListStart(sequenceCounter) ==
    buildHeader("WIFI_LIST_START", 0, sequenceCounter)

\* uint8_t ssidLength = ssid.length(); if (ssidLength > 32) ssidLength = 32;
ssidLength(ssid) == IF U8(Len(ssid)) > 32 THEN 32 ELSE U8(Len(ssid))

\* network is [ssid, rssi, securityType, channel].
buildWiFiNetworkEntry(network, sequenceCounter) ==
    buildHeader("WIFI_NETWORK_ENTRY", 1 + ssidLength(network.ssid) + 1 + 1 + 1,
                sequenceCounter)
    \o <<ssidLength(network.ssid)>>
    \o SubSeq(network.ssid, 1, ssidLength(network.ssid))
    \o <<U8(network.rssi), network.securityType, network.channel>>

buildWiFiListEnd(count, sequenceCounter) ==
    buildHeader("WIFI_LIST_END", 1, sequenceCounter) \o <<count>>

buildCredentialWriteAck(statusCode, sequenceCounter) ==
    buildHeader("CREDENTIAL_WRITE_ACK", 1, sequenceCounter) \o <<statusCode>>

buildStatusResponse(state, rssi, ipAddress, ssid, sequenceCounter) ==
    buildHeader("STATUS_RESPONSE", 1 + 1 + 4 + 1 + ssidLength(ssid), sequenceCounter)
    \o <<StateByte(state), U8(rssi)>>
    \o ipAddress
    \o <<ssidLength(ssid)>>
    \o SubSeq(ssid, 1, ssidLength(ssid))

\* uint8_t messageLength = errorMessage.length(); if (messageLength > 255) ...
messageLength(errorMessage) ==
    IF U8(Len(errorMessage)) > 255 THEN 255 ELSE U8(Len(errorMessage))

buildError(errorCode, errorMessage, sequenceCounter) ==
    buildHeader("ERROR", 1 + 1 + messageLength(errorMessage), sequenceCounter)
    \o <<ErrorCodeByte(errorCode), messageLength(errorMessage)>>
    \o SubSeq(errorMessage, 1, messageLength(errorMessage))

\* The lengths of the texts given to the builder.
TextLengths == {0, 1, MaxSsidLen, MaxSsidLen + 1, 40, 255, 256, MaxTextBytes}

\* The counter of a builder that is new, or has built 255 frames.
StartValues == {0, 255}

InitBuilder ==
    /\ SessionConstructed({})
    /\ store = NoCredential
    /\ \E s \in StartValues :
          codec = [fn |-> "MessageBuilder", sequenceCounter |-> s, start |-> s,
                   built |-> 0, frame |-> <<>>, text |-> <<>>]

\* A build function has returned frame for the input text.  start is the counter
\* when the builder was made or last reset, built the frames built since then.
Built(fn, frame, text) ==
    [fn |-> fn, sequenceCounter |-> incrementSequence(codec.sequenceCounter),
     start |-> codec.start, built |-> codec.built + 1, frame |-> frame,
     text |-> text]

\* The builder is there and has not built MaxBuilds frames.
Building ==
    /\ codec.fn # "none"
    /\ codec.built < MaxBuilds

BuildWiFiListStart ==
    /\ Building
    /\ codec' = Built("buildWiFiListStart",
                      buildWiFiListStart(codec.sequenceCounter), <<>>)
    /\ UNCHANGED sessionVars

BuildWiFiNetworkEntry ==
    /\ Building
    /\ \E n \in TextLengths :
          codec' = Built("buildWiFiNetworkEntry",
                         buildWiFiNetworkEntry([ssid |-> SsidText(n), rssi |-> -50,
                                                securityType |-> 2, channel |-> 6],
                                               codec.sequenceCounter),
                         SsidText(n))
    /\ UNCHANGED sessionVars

BuildWiFiListEnd ==
    /\ Building
    /\ \E count \in {0, MaxScanResults} :
          codec' = Built("buildWiFiListEnd",
                         buildWiFiListEnd(count, codec.sequenceCounter), <<>>)
    /\ UNCHANGED sessionVars

BuildCredentialWriteAck ==
    /\ Building
    /\ \E statusCode \in 0 .. 3 :
          codec' = Built("buildCredentialWriteAck",
                         buildCredentialWriteAck(statusCode, codec.sequenceCounter),
                         <<>>)
    /\ UNCHANGED sessionVars

BuildStatusResponse ==
    /\ Building
    /\ \E state \in {"NOT_CONFIGURED", "CONNECTED"}, n \in {0, MaxSsidLen, 40} :
          codec' = Built("buildStatusResponse",
                         buildStatusResponse(state, -50, <<192, 168, 1, 2>>,
                                             SsidText(n), codec.sequenceCounter),
                         SsidText(n))
    /\ UNCHANGED sessionVars

BuildError ==
    /\ Building
    /\ \E errorCode \in {"CREDENTIAL_WRITE_FAILED", "STORAGE_ERROR"},
          n \in TextLengths :
          codec' = Built("buildError",
                         buildError(errorCode, Text(n, 32, 90),
                                    codec.sequenceCounter),
                         Text(n, 32, 90))
    /\ UNCHANGED sessionVars

\* MessageBuilder::resetSequence: the counter is 0 again; the frames are counted
\* anew from here.
ResetSequence ==
    /\ codec.fn # "none"
    /\ codec' = [fn |-> "resetSequence", sequenceCounter |-> 0, start |-> 0,
                 built |-> 0, frame |-> <<>>, text |-> <<>>]
    /\ UNCHANGED sessionVars

NextBuilder ==
    \/ BuildWiFiListStart
    \/ BuildWiFiNetworkEntry
    \/ BuildWiFiListEnd
    \/ BuildCredentialWriteAck
    \/ BuildStatusResponse
    \/ BuildError
    \/ ResetSequence

SpecBuilder == InitBuilder /\ [][NextBuilder]_vars

\* C24: counting from 0 the frames one builder builds, whatever their types, in a
\* run of build calls that no resetSequence() interrupts, the sequence byte of
\* frame k is (s + k) mod 256, s being the counter before the first; after 256
\* frames the counter is s again.  A resetSequence() sets the counter to 0, and the
\* build calls after it are such a run with s = 0.
C24_OneCounter ==
    /\ codec.built > 0
       => /\ codec.frame[2] = (codec.start + codec.built - 1) % 256
          /\ codec.sequenceCounter = (codec.start + codec.built) % 256
          /\ codec.built = 256 => codec.sequenceCounter = codec.start
    /\ codec.fn = "resetSequence"
       => codec.sequenceCounter = 0

\* A builder that began at 255 has built 256 frames.
C24_Witness ==
    /\ codec.built = 256
    /\ codec.start = 255
    /\ codec.sequenceCounter = 255
    /\ codec.frame[2] = 254

\* C25: buildError writes min(L, 255) as the length of a message of L bytes, and
\* after it exactly the first min(L, 255) bytes of the message.
C25_ErrorTruncated ==
    codec.fn = "buildError"
    => LET L == Len(codec.text)
           n == IF L < 255 THEN L ELSE 255
       IN  /\ codec.frame[6] = n
           /\ SubSeq(codec.frame, 7, Len(codec.frame)) = SubSeq(codec.text, 1, n)

\* C26: buildWiFiNetworkEntry writes min(L, 32) as the length of an SSID of L
\* bytes, after it exactly the first min(L, 32) bytes of the SSID, and
\* ssid_len + 4 as the payload length of the header.
C26_SsidTruncated ==
    codec.fn = "buildWiFiNetworkEntry"
    => LET L == Len(codec.text)
           n == IF L < 32 THEN L ELSE 32
       IN  /\ codec.frame[5] = n
           /\ SubSeq(codec.frame, 6, Len(codec.frame) - 3) = SubSeq(codec.text, 1, n)
           /\ codec.frame[3] + 256 * codec.frame[4] = n + 4

\* C30: a built frame begins with its type, the sequence byte and the number of
\* the bytes that follow the header, low byte first; validateMessage accepts it.
C30_BuiltFramesValidate ==
    codec.built > 0
    => /\ Len(codec.frame) >= 4
       /\ codec.frame[1] \in {1, 2, 3, 17, 33, 255}
       /\ codec.frame[3] + 256 * codec.frame[4] = Len(codec.frame) - 4
       /\ validateMessage(codec.frame).ok

\* An error frame whose payload needs the high byte of the length has been built.
C30_Witness ==
    /\ codec.fn = "buildError"
    /\ Len(codec.frame) = 4 + 257
    /\ codec.frame[3] = 1 /\ codec.frame[4] = 1

\* C28: isBLERunning() returns true exactly when BLE is initialised and
\* advertising.
C28_RunningMeansAdvertising ==
    [][\A i \in DOMAIN fx' :
          (fx'[i].k = "ret" /\ fx'[i].a = "isBLERunning")
          => fx'[i].v = BoolValue(bleInitialized /\ advertising)]_vars

\* The Preferences calls of the step, as a successful clear makes them.
ClearedInStep(e) ==
    /\ CallsOf(e, "preferences.begin") = <<Call("preferences.begin", 1)>>
    /\ CallsOf(e, "preferences.clear") = <<Call("preferences.clear", 1)>>

\* C29 as stated: clearCredentials() called when no credential is stored, as it is
\* at a second clear in a row, returns true.
C29_ClearReturnsTrue ==
    [][\A i \in DOMAIN fx' :
          (fx'[i].k = "ret" /\ fx'[i].a = "clearCredentials" /\ fx'[1] = NothingStored)
          => fx'[i].v = 1]_vars

\* C29, amended: clearCredentials() returns true exactly when begin() has run and
\* Preferences opens and clears the namespace, whatever is stored, so also with no
\* credential stored and at a second clear in a row; before begin() it returns
\* false without a Preferences call, and a clear that returns false leaves the
\* store as it was.  After a clear that returned true getSavedCredentials()
\* reports isValid = false, and no clear changes the WiFi connection or its
\* recorded state.
C29_ClearIsIdempotent ==
    [][\A i \in DOMAIN fx' :
          (fx'[i].k = "ret" /\ fx'[i].a = "clearCredentials")
          => /\ fx'[i].v = BoolValue(pc # "boot" /\ ClearedInStep(fx'))
             /\ pc = "boot"
                => /\ CallsOf(fx', "preferences.begin") = <<>>
                   /\ CallsOf(fx', "preferences.clear") = <<>>
             /\ fx'[i].v = 1
                => \A l \in LoadOutcomes : ~loadCredentials(store', l).isValid
             /\ fx'[i].v # 1 => store' = store
             /\ wifiStatus' = wifiStatus
             /\ lastConnectionState' = lastConnectionState
             /\ credentialsConfigured' = credentialsConfigured]_vars

\* clearCredentials() has returned true with no credential stored, the station
\* connected.
C29_Witness ==
    /\ fx = <<NothingStored, Call("preferences.begin", 1), Call("preferences.clear", 1),
              Return("clearCredentials", 1)>>
    /\ store = NoCredential
    /\ wifiStatus = "WL_CONNECTED"

\* The length the two fields of a credential take in the payload.
FieldBytes(ssid, password) == 1 + Len(ssid) + 1 + Len(password)

\* C39 as stated: an accepted frame declares exactly the bytes of its two fields.
C39_WholePayload ==
    (codec.fn = "parseCredentialWrite" /\ codec.out.isValid)
    => parseHeader(codec.data).payloadLength
         = FieldBytes(codec.out.ssid, codec.out.password)

\* C39, amended: an accepted frame declares at least the bytes of its two fields;
\* a frame that is well formed but for one byte declared and present after the
\* password is accepted, with the credential it carries.
C39_FieldsFit ==
    codec.fn = "parseCredentialWrite"
    => /\ codec.out.isValid
          => parseHeader(codec.data).payloadLength
               >= FieldBytes(codec.out.ssid, codec.out.password)
       /\ (/\ codec.shape = "padded"
           /\ Len(codec.ssid) \in 1 .. MaxSsidLen
           /\ Len(codec.password) <= MaxPasswordLen)
          => /\ codec.out.isValid
             /\ codec.out.ssid = codec.ssid
             /\ codec.out.password = codec.password

\* A frame with a byte left over after a password of 63 bytes has been accepted.
C39_Witness ==
    /\ codec.fn = "parseCredentialWrite"
    /\ codec.shape = "padded"
    /\ codec.out.isValid
    /\ Len(codec.out.ssid) = MaxSsidLen
    /\ Len(codec.out.password) = MaxPasswordLen
    /\ parseHeader(codec.data).payloadLength
         = FieldBytes(codec.out.ssid, codec.out.password) + 1

\* C31: parseCredentialWrite reads no byte after the declared payload (nor after
\* the buffer); a frame whose declared payload is one byte short of its two fields
\* is rejected, and an accepted frame declares at least the bytes of its fields.
C31_OneBudget ==
    codec.fn = "parseCredentialWrite"
    => /\ \A at \in parseCredentialWriteReads(codec.data) :
             /\ at <= 4 + parseHeader(codec.data).payloadLength
             /\ at <= Len(codec.data)
       /\ codec.shape = "cut" => ~codec.out.isValid
       /\ codec.out.isValid
          => /\ FieldBytes(codec.out.ssid, codec.out.password)
                  <= parseHeader(codec.data).payloadLength
             /\ parseCredentialWriteReads(codec.data)
                  = 1 .. 4 + FieldBytes(codec.out.ssid, codec.out.password)

\* A frame whose declared payload ends one byte before the end of a password of 63
\* bytes has been rejected, after the length byte of the password was read.
C31_Witness ==
    /\ codec.fn = "parseCredentialWrite"
    /\ codec.shape = "cut"
    /\ Len(codec.ssid) = MaxSsidLen
    /\ Len(codec.password) = MaxPasswordLen
    /\ ~codec.out.isValid
    /\ codec.out.err = "Not enough data for string content"
    /\ parseCredentialWriteReads(codec.data) = 1 .. 4 + 1 + MaxSsidLen + 1

\* C32: a frame sent again with another sequence byte gets the results of
\* validateMessage, parseCredentialWrite and parseStatusRequest it got first.
C32_SequenceIgnored ==
    codec.fn = "resequenced"
    => /\ codec.validated = validateMessage(codec.first)
       /\ codec.credential = parseCredentialWrite(codec.first)
       /\ codec.statusRequest = parseStatusRequest(codec.first)

\* A credential write with sequence byte 255 has been accepted.
C32_Witness ==
    /\ codec.fn = "resequenced"
    /\ codec.data[2] = 255
    /\ codec.first[2] = 0
    /\ codec.validated.ok
    /\ codec.credential.isValid
    /\ Len(codec.credential.ssid) = MaxSsidLen

\* C33: the step of the transport context that parses a valid credential write
\* also runs the credentials-received callback and the save and, the save done,
\* records CONNECTING and starts the attempt, after the wait that follows
\* WiFi.disconnect() when the station was connected; the step in which the
\* notification returns records the result of the attempt and runs its callback.
\* None sets a pending flag, and each is possible in every state of the attempt,
\* however loop() has run.
C33_WriteHandledInNotification ==
    [][/\ CallsOf(fx', "parseCredentialWrite") = <<Call("parseCredentialWrite", 0)>>
          => /\ CallbacksOf(fx', "credentialsReceived") # <<>>
             /\ CallsOf(fx', "saveCredentials") # <<>>
             /\ UNCHANGED <<pendingClientConnect, pendingClientDisconnect>>
             /\ IF CallsOf(fx', "saveCredentials") = <<Call("saveCredentials", 1)>>
                THEN /\ lastConnectionState' = "CONNECTING"
                     /\ IF wifiStatus = "WL_CONNECTED"
                        THEN wpc' = "beginWait"
                        ELSE CallsOf(fx', "WiFi.begin") # <<>> /\ wpc' = "connecting"
                ELSE /\ wpc' = "idle"
                     /\ UNCHANGED <<lastConnectionState, wifiStatus>>
       /\ (wpc = "beginWait" /\ wpc' # "beginWait")
          => /\ CallsOf(fx', "WiFi.begin") # <<>>
             /\ UNCHANGED <<pendingClientConnect, pendingClientDisconnect>>
             /\ IF wifiStatus' = "WL_CONNECTED"
                THEN /\ wpc' = "idle"
                     /\ lastConnectionState' = "CONNECTED"
                     /\ CallbacksOf(fx', "wifiConnected") # <<>>
                ELSE wpc' = "connecting"
       /\ (wpc = "connecting" /\ wpc' # "connecting")
          => /\ wpc' = "idle"
             /\ UNCHANGED <<pendingClientConnect, pendingClientDisconnect>>
             /\ IF wifiStatus' = "WL_CONNECTED"
                THEN /\ lastConnectionState' = "CONNECTED"
                     /\ CallbacksOf(fx', "wifiConnected") # <<>>
                ELSE /\ lastConnectionState' = "CONNECTION_FAILED"
                     /\ CallbacksOf(fx', "wifiConnectionFailed") # <<>>
       /\ wpc = "beginWait" => ENABLED WriteBegin
       /\ wpc = "connecting" => ENABLED WriteResolve]_vars

\* A credential write has returned with the station connected, no tick having been
\* asked for.
C33_Witness ==
    /\ wpc = "idle"
    /\ CallbacksOf(fx, "wifiConnected") # <<>>
    /\ FramesOf(fx, "CREDENTIAL_WRITE_ACK") # <<>>
    /\ lastConnectionState = "CONNECTED"
    /\ ~pendingClientConnect
    /\ ~pendingClientDisconnect

\* The frames among the effects e.
AllFrames(e) == SelectSeq(e, LAMBDA x : x.k = "frame")

\* C34: a step delivers frames only with clientConnected true before and after it;
\* a step taken with clientConnected false delivers none, whatever it had to send,
\* and the step in which a peer arrives delivers nothing that was dropped before.
C34_NoFrameWithoutPeer ==
    [][/\ AllFrames(fx') # <<>> => (clientConnected /\ clientConnected')
       /\ ~clientConnected => AllFrames(fx') = <<>>]_vars

\* A tick has had the status to send with no peer connected, and sent nothing.
C34_Witness ==
    /\ ~clientConnected
    /\ bleInitialized
    /\ CallsOf(fx, "sendCurrentStatus") # <<>>
    /\ AllFrames(fx) = <<>>

\* C35: with loop() called again and again, a connect notification that no connect
\* callback has followed yet leads to the connect callback and to the scan, and a
\* disconnect notification leads to the disconnect callback.
C35_NoNotificationLost ==
    /\ (arrived.n > 0) ~> (CallbacksOf(fx, "bleClientConnected") # <<>>)
    /\ (arrived.n > 0) ~> (CallsOf(fx, "scanNetworks") # <<>>)
    /\ (fx = OnDisconnectWait) ~> (CallbacksOf(fx, "bleClientDisconnected") # <<>>)

\* A tick runs the scan of a connect path while a further connect notification,
\* delivered after the path began, waits for the next tick.
C35_Witness ==
    /\ CallsOf(fx, "scanNetworks") # <<>>
    /\ arrived.batch > 0
    /\ arrived.n > 0
    /\ pendingClientConnect

\* C36: when a tick has just run the disconnect callback, the latest of the BLE
\* callbacks, and no notification is pending, clientConnected is false.
C36_LastCallbackAgrees ==
    (/\ pc = "idle"
     /\ CallbacksOf(fx, "bleClientDisconnected") # <<>>
     /\ ~pendingClientConnect
     /\ ~pendingClientDisconnect)
    => ~clientConnected

(***************************************************************************)
(* The one MessageBuilder of WiFiSetBLEService used by two execution        *)
(* contexts at a time: the transport context (frames of a credential write) *)
(* and the cooperative thread (status and list frames).  sequenceCounter is *)
(* a plain uint8_t: a build reads it in buildHeader, and incrementSequence  *)
(* reads it again and writes it, with nothing to keep the other context out.*)
(***************************************************************************)
Contexts == {"transport", "loop"}

\* at: where the context stands in its build; header: the sequence byte of the
\* frame it builds; loaded: the counter as incrementSequence read it.
ContextIdle == [at |-> "idle", header |-> 0, loaded |-> 0]

InitShared ==
    /\ SessionConstructed({})
    /\ store = NoCredential
    /\ \E s \in StartValues :
          codec = [fn |-> "shared", sequenceCounter |-> s, start |-> s,
                   headers |-> <<>>,
                   ctx |-> [c \in Contexts |-> ContextIdle]]

\* buildHeader: header[1] = sequenceCounter
SharedBuildHeader ==
    /\ codec.fn = "shared"
    /\ Len(codec.headers) < MaxSharedBuilds
    /\ \E c \in Contexts :
          /\ codec.ctx[c].at = "idle"
          /\ codec' = [codec EXCEPT
                          !.headers = Append(@, codec.sequenceCounter),
                          !.ctx[c] = [at |-> "built",
                                      header |-> codec.sequenceCounter,
                                      loaded |-> 0]]
    /\ UNCHANGED sessionVars

\* incrementSequence: the read of sequenceCounter++
SharedIncrementLoad ==
    /\ codec.fn = "shared"
    /\ \E c \in Contexts :
          /\ codec.ctx[c].at = "built"
          /\ codec' = [codec EXCEPT
                          !.ctx[c] = [at |-> "loaded", header |-> @.header,
                                      loaded |-> codec.sequenceCounter]]
    /\ UNCHANGED sessionVars

\* incrementSequence: the write of sequenceCounter++; the build function returns.
SharedIncrementStore ==
    /\ codec.fn = "shared"
    /\ \E c \in Contexts :
          /\ codec.ctx[c].at = "loaded"
          /\ codec' = [codec EXCEPT
                          !.sequenceCounter = incrementSequence(codec.ctx[c].loaded),
                          !.ctx[c] = ContextIdle]
    /\ UNCHANGED sessionVars

NextShared ==
    \/ SharedBuildHeader
    \/ SharedIncrementLoad
    \/ SharedIncrementStore

SpecShared == InitShared /\ [][NextShared]_vars

\* C37: the sequence bytes of the frames built, in the order of their headers, are
\* consecutive modulo 256 from the counter's first value: none repeats and none is
\* skipped.
C37_ConsecutiveWhenShared ==
    codec.fn = "shared"
    => \A i \in 1 .. Len(codec.headers) :
          codec.headers[i] = (codec.start + i - 1) % 256

\* The places of the WIFI_LIST_END frames among the effects e.
ListEnds(e) == {i \in 1 .. Len(e) : e[i].k = "frame" /\ e[i].a = "WIFI_LIST_END"}

\* C38: a WIFI_LIST_END delivered by a tick follows a WIFI_LIST_START of the same
\* tick with no loss of the peer in between, and the WIFI_NETWORK_ENTRY frames
\* delivered between the two are as many as its count byte says.
C38_ListEndCompletesList ==
    \A e \in ListEnds(tickLog) :
        \E b \in Places(tickLog, Frame("WIFI_LIST_START", 0)) :
            /\ b < e
            /\ \A i \in b .. e : tickLog[i] \notin {PeerDisconnected, PeerAway}
            /\ Cardinality({i \in b .. e : tickLog[i].k = "frame"
                                            /\ tickLog[i].a = "WIFI_NETWORK_ENTRY"})
                 = tickLog[e].v
            /\ \A i \in b + 1 .. e - 1 : tickLog[i].a # "WIFI_LIST_START"

\* C40: when a tick has just ended and no credential write is running in the
\* transport context, the recorded state is the one getConnectionStatus() reports.
C40_RecordedIsReported ==
    (CallsOf(fx, "monitorConnection") # <<>> /\ wpc # "connecting")
    => /\ lastConnectionState
            = updateConnectionState(wifiStatus, credentialsConfigured)
       /\ convertConnectionState(lastConnectionState) = ReportedStatus

\* A tick has ended after a credential was stored and the station went down: it
\* recorded, and told the application, the state that is reported.
C40_Witness ==
    /\ CallsOf(fx, "monitorConnection") # <<>>
    /\ StatusCallbacks(fx) # <<>>
    /\ wpc = "idle"
    /\ store # NoCredential
    /\ wifiStatus = "WL_DISCONNECTED"
    /\ convertConnectionState(lastConnectionState) = ReportedStatus

====
